---- MODULE Spec2Model ----
(***************************************************************************)
(* Model of the tibba lab-report core: the free-text biomarker extractor   *)
(* (src/utils/parseFromText.ts), the reference-rule evaluator              *)
(* (reference/levelUtils) and the row scorer of the dashboard.             *)
(*                                                                         *)
(* Text is modelled as sequences of one-character strings.  JavaScript     *)
(* numbers are modelled as exact rationals extended with Infinity,         *)
(* -Infinity and NaN; every model number is small enough for the double    *)
(* arithmetic of the source to be exact on it.                             *)
(***************************************************************************)
EXTENDS Integers, Sequences, FiniteSets, TLC

VARIABLES
  op,        \* the operation applied last
  row,       \* rowScore: the BiomarkerRow scored last
  score,     \* rowScore: the number it returned
  rows,      \* computeScores: the row list
  scores,    \* computeScores: { overall, catScores }
  entry,     \* computeLevel: the reference entry (levels -> sex rules)
  value,     \* computeLevel: the value
  sex,       \* computeLevel: "H", "M" or "U"
  level,     \* computeLevel: the level returned, NoLevel for null
  line,      \* extractor: the line of the text being read
  count,     \* extractor: the number of lines read so far
  hit,       \* extractor: alias, match and candidate the scan of the line stopped at
  results,   \* extractor: the records accumulated
  alias,     \* findAliasMatch: the alias searched for
  match,     \* findAliasMatch: the match returned
  normText,  \* normalize: the text returned
  analyses,  \* storage: the localStorage item "analyses"
  calls,     \* storage: the calls of saveAnalysis and removeAnalysis so far
  data,      \* ReferenceProvider: the state data
  loading,   \* ReferenceProvider: the state loading
  refItem,   \* ReferenceProvider: the localStorage item "reference_ranges"
  tasks,     \* ReferenceProvider: where boot and each reload stand
  thrown,    \* ReferenceProvider: the calls whose promise was rejected
  fetches,   \* ReferenceProvider: the number of fetches started
  writes     \* ReferenceProvider: the number of writes of the item

scoreVars == <<row, score, rows, scores>>
levelVars == <<entry, value, sex, level>>
parseVars == <<line, count, hit, results, alias, match, normText>>
storeVars == <<analyses, calls>>
refVars == <<data, loading, refItem, tasks, thrown, fetches, writes>>
appVars == <<storeVars, refVars>>
vars == <<op, scoreVars, levelVars, parseVars, appVars>>

(***************************************************************************)
(* JavaScript numbers                                                      *)
(***************************************************************************)
RECURSIVE GCD(_, _)
GCD(a, b) == IF b = 0 THEN a ELSE GCD(b, a % b)

IAbs(i) == IF i < 0 THEN -i ELSE i

\* the rational n/d (d # 0) in lowest terms with a positive denominator
Rat(n, d) ==
  LET g == GCD(IAbs(n), IAbs(d))
      s == IF d < 0 THEN -1 ELSE 1
  IN  [k |-> "num", n |-> (s * n) \div g, d |-> (s * d) \div g]

Num(i) == [k |-> "num", n |-> i, d |-> 1]
PosInf == [k |-> "inf", n |-> 1, d |-> 0]
NegInf == [k |-> "ninf", n |-> -1, d |-> 0]
NaN == [k |-> "nan", n |-> 0, d |-> 0]
Null == [k |-> "null", n |-> 0, d |-> 0]

Zero == Num(0)
One == Num(1)

\* a < b on rationals, by continued-fraction expansion: no product is
\* formed, so 1e-9 compares exactly within 32-bit integers
RECURSIVE RatLt(_, _)
RatLt(a, b) ==
  LET fa == a.n \div a.d
      fb == b.n \div b.d
      ra == a.n % a.d
      rb == b.n % b.d
  IN  IF fa # fb THEN fa < fb
      ELSE IF rb = 0 THEN FALSE
      ELSE IF ra = 0 THEN TRUE
      ELSE RatLt([k |-> "num", n |-> b.d, d |-> rb], [k |-> "num", n |-> a.d, d |-> ra])

\* the JavaScript relational operators on numbers (NaN compares false)
JsLt(a, b) ==
  CASE a.k = "nan" \/ b.k = "nan" -> FALSE
    [] a.k = "ninf" -> b.k # "ninf"
    [] a.k = "inf" -> FALSE
    [] b.k = "inf" -> TRUE
    [] b.k = "ninf" -> FALSE
    [] OTHER -> RatLt(a, b)

JsLeq(a, b) ==
  /\ a.k # "nan"
  /\ b.k # "nan"
  /\ (a = b \/ JsLt(a, b))

JsGeq(a, b) == JsLeq(b, a)

isFinite(a) == a.k = "num"

JsNeg(a) ==
  CASE a.k = "num" -> Rat(-a.n, a.d)
    [] a.k = "inf" -> NegInf
    [] a.k = "ninf" -> PosInf
    [] OTHER -> NaN

JsAdd(a, b) ==
  CASE a.k = "nan" \/ b.k = "nan" -> NaN
    [] a.k = "num" /\ b.k = "num" -> Rat(a.n * b.d + b.n * a.d, a.d * b.d)
    [] a.k = "num" -> b
    [] b.k = "num" -> a
    [] a.k = b.k -> a
    [] OTHER -> NaN

JsSub(a, b) == JsAdd(a, JsNeg(b))

\* Math.abs
JsAbs(a) ==
  CASE a.k = "num" -> Rat(IAbs(a.n), a.d)
    [] a.k = "nan" -> NaN
    [] OTHER -> PosInf

Sign(a) ==
  CASE a.k = "inf" -> 1
    [] a.k = "ninf" -> -1
    [] a.n > 0 -> 1
    [] a.n < 0 -> -1
    [] OTHER -> 0

JsMul(a, b) ==
  CASE a.k = "nan" \/ b.k = "nan" -> NaN
    [] a.k = "num" /\ b.k = "num" -> Rat(a.n * b.n, a.d * b.d)
    [] Sign(a) * Sign(b) > 0 -> PosInf
    [] Sign(a) * Sign(b) < 0 -> NegInf
    [] OTHER -> NaN

\* a / b for a divisor that is not zero (the scorer divides by a width that
\* is at least 1e-9, or NaN)
JsDiv(a, b) ==
  CASE a.k = "nan" \/ b.k = "nan" -> NaN
    [] a.k = "num" /\ b.k = "num" -> Rat(a.n * b.d, a.d * b.n)
    [] a.k = "num" -> Zero
    [] b.k = "num" -> IF Sign(a) * Sign(b) > 0 THEN PosInf ELSE NegInf
    [] OTHER -> NaN

\* Math.max: NaN when either argument is NaN
JsMax(a, b) ==
  CASE a.k = "nan" \/ b.k = "nan" -> NaN
    [] JsLt(a, b) -> b
    [] OTHER -> a

\* a number lies in the closed interval [0,1]
InUnit(a) == a.k = "num" /\ 0 <= a.n /\ a.n <= a.d

(***************************************************************************)
(* Text: a string is a sequence of one-character strings.  Characters      *)
(* outside ASCII are written by name.                                      *)
(***************************************************************************)
Range(s) == {s[i] : i \in DOMAIN s}

EnDash == "ndash"      \* U+2013
LeSign == "le"         \* U+2264
GeSign == "ge"         \* U+2265
WhiteSpace == {" ", "\t"}
DigitChars == <<"0", "1", "2", "3", "4", "5", "6", "7", "8", "9">>
Digits == {DigitChars[i] : i \in DOMAIN DigitChars}
DigitValue(c) == (CHOOSE i \in DOMAIN DigitChars : DigitChars[i] = c) - 1

\* a value that is null rather than a string
NullText == <<"<null>">>

RECURSIVE Pow10(_)
Pow10(k) == IF k = 0 THEN 1 ELSE 10 * Pow10(k - 1)

\* String.prototype.trim
RECURSIVE TrimStart(_)
TrimStart(s) == IF s # <<>> /\ s[1] \in WhiteSpace THEN TrimStart(Tail(s)) ELSE s

RECURSIVE TrimEnd(_)
TrimEnd(s) ==
  IF s # <<>> /\ s[Len(s)] \in WhiteSpace THEN TrimEnd(SubSeq(s, 1, Len(s) - 1)) ELSE s

Trim(s) == TrimEnd(TrimStart(s))

\* s.replace(c, t) with a string pattern: the first occurrence only
ReplaceFirst(s, c, t) ==
  IF \E i \in DOMAIN s : s[i] = c
  THEN LET i == CHOOSE i \in DOMAIN s : s[i] = c /\ \A j \in 1..(i - 1) : s[j] # c
       IN  SubSeq(s, 1, i - 1) \o t \o SubSeq(s, i + 1, Len(s))
  ELSE s

\* first index at or after i that holds no whitespace (Len(s) + 1 at the end)
RECURSIVE SkipSpaces(_, _)
SkipSpaces(s, i) == IF i <= Len(s) /\ s[i] \in WhiteSpace THEN SkipSpaces(s, i + 1) ELSE i

\* first index at or after i that holds no digit
RECURSIVE SkipDigits(_, _)
SkipDigits(s, i) == IF i <= Len(s) /\ s[i] \in Digits THEN SkipDigits(s, i + 1) ELSE i

\* the index after the match of  sign? \d+ (\.\d+)?  at i, 0 when it does
\* not match there; signs is the set of sign characters the pattern allows
NumberEnd(s, i, signs) ==
  LET j0 == IF i <= Len(s) /\ s[i] \in signs THEN i + 1 ELSE i
      j1 == SkipDigits(s, j0)
      j2 == SkipDigits(s, j1 + 1)
  IN  IF j1 = j0 THEN 0
      ELSE IF j1 <= Len(s) /\ s[j1] = "." /\ j2 > j1 + 1 THEN j2
      ELSE j1

RECURSIVE DigitsToInt(_)
DigitsToInt(ds) ==
  IF ds = <<>> THEN 0 ELSE 10 * DigitsToInt(SubSeq(ds, 1, Len(ds) - 1)) + DigitValue(ds[Len(ds)])

\* parseFloat / Number of a text that matches  [-+]? \d+ (\.\d+)?
parseFloat(t) ==
  LET neg == t[1] = "-"
      body == IF t[1] \in {"-", "+"} THEN Tail(t) ELSE t
      e == SkipDigits(body, 1)
      frac == SubSeq(body, e + 1, Len(body))
      m == DigitsToInt(SubSeq(body, 1, e - 1)) * Pow10(Len(frac)) + DigitsToInt(frac)
  IN  Rat(IF neg THEN -m ELSE m, Pow10(Len(frac)))

(***************************************************************************)
(* Reference rule evaluator (reference/levelUtils, and its copy in the     *)
(* dashboard)                                                              *)
(***************************************************************************)
LevelKeys == {"excelente", "bueno", "regular", "malo"}
NoLevel == "null"

\* order that leaves malo to the check after the loop
order_withoutMalo == <<"excelente", "bueno", "regular">>

order == <<"excelente", "bueno", "regular", "malo">>

matchSingleRule(rule, v) ==
  LET r == Trim(ReplaceFirst(rule, ",", <<".">>))
      \* 1) ^(-?\d+(\.\d+)?)\s*[-ndash]\s*(-?\d+(\.\d+)?)
      aEnd == NumberEnd(r, 1, {"-"})
      dash == SkipSpaces(r, aEnd)
      bStart == SkipSpaces(r, dash + 1)
      bEnd == NumberEnd(r, bStart, {"-"})
      isRange == aEnd > 0 /\ dash <= Len(r) /\ r[dash] \in {"-", EnDash} /\ bEnd > 0
      \* 2) ^([<>]=?|ge|le)\s*(-?\d+(\.\d+)?)
      opLen == IF r = <<>> THEN 0
               ELSE IF r[1] \in {"<", ">"}
                    THEN (IF Len(r) >= 2 /\ r[2] = "=" THEN 2 ELSE 1)
               ELSE IF r[1] \in {GeSign, LeSign} THEN 1
               ELSE 0
      nStart == SkipSpaces(r, opLen + 1)
      nEnd == NumberEnd(r, nStart, {"-"})
      isCmp == opLen > 0 /\ nEnd > 0
      cmpOp == SubSeq(r, 1, opLen)
      \* 3) ^(-?\d+(\.\d+)?)$
      isExact == aEnd = Len(r) + 1
  IN  IF isRange
      THEN LET a == parseFloat(SubSeq(r, 1, aEnd - 1))
               b == parseFloat(SubSeq(r, bStart, bEnd - 1))
               lo == IF JsLt(b, a) THEN b ELSE a
               hi == IF JsLt(a, b) THEN b ELSE a
           IN  JsGeq(v, lo) /\ JsLeq(v, hi)
      ELSE IF isCmp
      THEN LET num == parseFloat(SubSeq(r, nStart, nEnd - 1))
           IN  CASE cmpOp = <<"<">> -> JsLt(v, num)
                 [] cmpOp = <<">">> -> JsLt(num, v)
                 [] cmpOp \in {<<"<", "=">>, <<LeSign>>} -> JsLeq(v, num)
                 [] cmpOp \in {<<">", "=">>, <<GeSign>>} -> JsGeq(v, num)
      ELSE IF isExact THEN v = parseFloat(r)
      ELSE FALSE

\* s.replace(/\s*c\s*/g, "|") for the characters c of seps
RECURSIVE ReplaceSeparator(_, _, _)
ReplaceSeparator(s, i, seps) ==
  IF i > Len(s) THEN <<>>
  ELSE LET j == SkipSpaces(s, i)
       IN  IF j <= Len(s) /\ s[j] \in seps
           THEN <<"|">> \o ReplaceSeparator(s, SkipSpaces(s, j + 1), seps)
           ELSE <<s[i]>> \o ReplaceSeparator(s, i + 1, seps)

\* s.split("|")
RECURSIVE SplitBar(_)
SplitBar(s) ==
  IF \E i \in DOMAIN s : s[i] = "|"
  THEN LET i == CHOOSE i \in DOMAIN s : s[i] = "|" /\ \A j \in 1..(i - 1) : s[j] # "|"
       IN  <<SubSeq(s, 1, i - 1)>> \o SplitBar(SubSeq(s, i + 1, Len(s)))
  ELSE <<s>>

\* the sub-rules of a rule text: split, trimmed, empty parts dropped
ruleParts(rule) ==
  LET a == ReplaceSeparator(rule, 1, {"o", "O"})
      b == ReplaceSeparator(a, 1, {"/"})
      c == ReplaceSeparator(b, 1, {";"})
      split == SplitBar(c)
      trimmed == [i \in DOMAIN split |-> Trim(split[i])]
  IN  SelectSeq(trimmed, LAMBDA t : t # <<>>)

\* matchRule that splits at "/" and ";" only
matchRule_noWordO(rule, v) ==
  IF rule = NullText \/ rule = <<>> THEN FALSE
  ELSE LET split == SplitBar(ReplaceSeparator(ReplaceSeparator(rule, 1, {"/"}), 1, {";"}))
       IN  \E i \in DOMAIN split : Trim(split[i]) # <<>> /\ matchSingleRule(Trim(split[i]), v)

matchRule(rule, v) ==
  IF rule = NullText \/ rule = <<>> THEN FALSE
  ELSE LET parts == ruleParts(rule)
       IN  \E i \in DOMAIN parts : matchSingleRule(parts[i], v)

\* a rule text is truthy: neither null nor the empty string
Truthy(t) == t # NullText /\ t # <<>>

pickSexRule(e, lvl, sx) ==
  LET set == e[lvl]
  IN  IF sx = "H" /\ Truthy(set.male) THEN set.male
      ELSE IF sx = "M" /\ Truthy(set.female) THEN set.female
      ELSE IF set.unisex # NullText THEN set.unisex
      ELSE IF set.male # NullText THEN set.male
      ELSE set.female

\* the dashboard's copy ignores the sex
dashboard_pickSexRule(e, lvl, sx) ==
  LET set == e[lvl]
  IN  IF set.unisex # NullText THEN set.unisex
      ELSE IF set.male # NullText THEN set.male
      ELSE set.female

\* the first level of ord, from index i on, whose rule matches
RECURSIVE firstMatch(_, _, _, _, _)
firstMatch(ord, i, e, v, sx) ==
  IF i > Len(ord) THEN NoLevel
  ELSE LET rule == pickSexRule(e, ord[i], sx)
       IN  IF Truthy(rule) /\ matchRule(rule, v) THEN ord[i]
           ELSE firstMatch(ord, i + 1, e, v, sx)

computeLevel(e, v, sx) ==
  LET found == firstMatch(order, 1, e, v, sx)
      bad == pickSexRule(e, "malo", sx)
  IN  IF found # NoLevel THEN found
      ELSE IF Truthy(bad) /\ matchRule(bad, v) THEN "malo"
      ELSE NoLevel

RECURSIVE dashboard_firstMatch(_, _, _, _, _)
dashboard_firstMatch(ord, i, e, v, sx) ==
  IF i > Len(ord) THEN NoLevel
  ELSE LET rule == dashboard_pickSexRule(e, ord[i], sx)
       IN  IF Truthy(rule) /\ matchRule(rule, v) THEN ord[i]
           ELSE dashboard_firstMatch(ord, i + 1, e, v, sx)

dashboard_computeLevel(e, v, sx) ==
  LET found == dashboard_firstMatch(order, 1, e, v, sx)
      bad == dashboard_pickSexRule(e, "malo", sx)
  IN  IF found # NoLevel THEN found
      ELSE IF Truthy(bad) /\ matchRule(bad, v) THEN "malo"
      ELSE NoLevel

\* rule texts of the reference dataset
Rule_80_90 == <<"8", "0", " ", "-", " ", "9", "0">>
Rule_70_99 == <<"7", "0", " ", "-", " ", "9", "9">>
Rule_60_89 == <<"6", "0", " ", "-", " ", "8", "9">>
Rule_100_125 == <<"1", "0", "0", " ", EnDash, " ", "1", "2", "5">>
Rule_100 == <<"1", "0", "0">>
Rule_lt70_o_gt125 == <<"<", " ", "7", "0", " ", "o", " ", ">", " ", "1", "2", "5">>
Rule_ge126_lt60 == <<GeSign, " ", "1", "2", "6", " ", "/", " ", "<", "6", "0">>
Rule_3c5_4c5 == <<"3", ",", "5", " ", "-", " ", "4", ",", "5">>
Rule_90_80 == <<"9", "0", " ", EnDash, " ", "8", "0">>
Rule_optimo_80_90 ==
  <<"o", "p", "t", "i", "m", "o", " ", "8", "0", " ", "-", " ", "9", "0">>

SexRules(u, m, f) == [unisex |-> u, male |-> m, female |-> f]
Unisex(t) == SexRules(t, NullText, NullText)
NoRules == Unisex(NullText)

\* the reference entries: the levels of a BiomarkerEntry
Entries ==
  [excelente : {NoRules, Unisex(Rule_80_90), Unisex(Rule_optimo_80_90), Unisex(Rule_90_80)},
   bueno : {NoRules, Unisex(Rule_70_99), SexRules(NullText, Rule_70_99, Rule_60_89),
            SexRules(NullText, NullText, Rule_60_89), SexRules(<<>>, Rule_70_99, NullText)},
   regular : {NoRules, Unisex(Rule_100_125), Unisex(Rule_100), Unisex(Rule_3c5_4c5)},
   malo : {NoRules, Unisex(Rule_lt70_o_gt125), Unisex(Rule_ge126_lt60)}]

LevelValues ==
  {Rat(35, 10), Num(4), Rat(42, 10), Rat(45, 10), Num(59), Num(60), Num(65), Num(70), Num(85), Num(99), Rat(995, 10), Num(100), Num(110),
   Num(125), Num(126), Num(200)}

Sexes == {"H", "M", "U"}

NoEntry == [l \in LevelKeys |-> NoRules]

LevelIdle ==
  /\ entry = NoEntry
  /\ value = Zero
  /\ sex = "U"
  /\ level = NoLevel

(***************************************************************************)
(* Free-text extractor (utils/parseFromText)                               *)
(***************************************************************************)
Micro == "micro"       \* U+00B5
Mu == "mu"             \* U+03BC
MidDot == "middot"     \* U+00B7

LowerChars ==
  <<"a", "b", "c", "d", "e", "f", "g", "h", "i", "j", "k", "l", "m",
    "n", "o", "p", "q", "r", "s", "t", "u", "v", "w", "x", "y", "z">>
UpperChars ==
  <<"A", "B", "C", "D", "E", "F", "G", "H", "I", "J", "K", "L", "M",
    "N", "O", "P", "Q", "R", "S", "T", "U", "V", "W", "X", "Y", "Z">>
LowerLetters == Range(LowerChars)
UpperLetters == Range(UpperChars)

\* letters with a diacritic, by name, and their base letters: NFD splits
\* each into the base letter and a combining mark
Precomposed ==
  [a_acute |-> "a", e_acute |-> "e", i_acute |-> "i", o_acute |-> "o", u_acute |-> "u",
   n_tilde |-> "n", A_acute |-> "A", E_acute |-> "E", I_acute |-> "I", O_acute |-> "O",
   U_acute |-> "U", N_tilde |-> "N"]

\* the characters of the alphabet that have the Unicode property Diacritic
\* themselves: U+005E, U+0060, U+00A8, U+00B4, U+00B7
DiacriticChars == {"^", "grave", "diaeresis", "acute", MidDot}

\* s.normalize('NFD') followed by the removal of every Diacritic character
RECURSIVE stripDiacritics(_)
stripDiacritics(s) ==
  IF s = <<>> THEN <<>>
  ELSE LET c == s[1]
       IN  (IF c \in DOMAIN Precomposed THEN <<Precomposed[c]>>
            ELSE IF c \in DiacriticChars THEN <<>>
            ELSE <<c>>) \o stripDiacritics(Tail(s))

toLowerChar(c) ==
  IF c \in UpperLetters THEN LowerChars[CHOOSE i \in DOMAIN UpperChars : UpperChars[i] = c] ELSE c

toLowerCase(s) == [i \in DOMAIN s |-> toLowerChar(s[i])]

\* the class [a-z0-9/%.,\s micro mu ^ middot -] of the normalizer
PermittedChars ==
  LowerLetters \cup Digits \cup WhiteSpace \cup {"/", "%", ".", ",", Micro, Mu, "^", MidDot, "-"}

\* .replace(/[^...]/g, ' ')
blankDisallowed(s) == [i \in DOMAIN s |-> IF s[i] \in PermittedChars THEN s[i] ELSE " "]

\* .replace(/\s+/g, ' ')
RECURSIVE collapseSpaces(_)
collapseSpaces(s) ==
  IF s = <<>> THEN <<>>
  ELSE IF s[1] \in WhiteSpace
       THEN <<" ">> \o collapseSpaces(SubSeq(s, SkipSpaces(s, 1), Len(s)))
       ELSE <<s[1]>> \o collapseSpaces(Tail(s))

\* normalize that trims before the other steps instead of after them
normalize_trimFirst(s) == collapseSpaces(blankDisallowed(toLowerCase(stripDiacritics(Trim(s)))))

normalize(s) == Trim(collapseSpaces(blankDisallowed(toLowerCase(stripDiacritics(s)))))

isBoundary(c) == c \notin (LowerLetters \cup Digits)

NoMatch == [found |-> FALSE, start |-> 0, end |-> 0]

\* line.indexOf(alias, from) with 0-based offsets, -1 when there is none
indexOf(text, key, from) ==
  LET hits == {i \in from..(Len(text) - Len(key)) : SubSeq(text, i + 1, i + Len(key)) = key}
  IN  IF hits = {} THEN -1 ELSE CHOOSE i \in hits : \A j \in hits : i <= j

\* findAliasMatch that accepts the first occurrence whatever surrounds it
findAliasMatch_noBoundary(text, key) ==
  LET idx == indexOf(text, key, 0)
  IN  IF idx = -1 THEN NoMatch ELSE [found |-> TRUE, start |-> idx, end |-> idx + Len(key)]

RECURSIVE findAliasFrom(_, _, _)
findAliasFrom(text, key, searchStart) ==
  IF searchStart > Len(text) THEN NoMatch
  ELSE LET idx == indexOf(text, key, searchStart)
       IN  IF idx = -1 THEN NoMatch
           ELSE LET before == IF idx = 0 THEN " " ELSE text[idx]
                    after == IF idx + Len(key) >= Len(text) THEN " "
                             ELSE text[idx + Len(key) + 1]
                IN  IF isBoundary(before) /\ isBoundary(after)
                    THEN [found |-> TRUE, start |-> idx, end |-> idx + Len(key)]
                    ELSE findAliasFrom(text, key, idx + 1)

findAliasMatch(text, key) == findAliasFrom(text, key, 0)

\* token.replace(/,/g, '.')
\* commasToDots that leaves the commas
commasToDots_none(t) == t

commasToDots(t) == [i \in DOMAIN t |-> IF t[i] = "," THEN "." ELSE t[i]]

\* the class [a-z%/ micro mu middot -] of an attached unit, with flag i
AttachedUnitChars == LowerLetters \cup UpperLetters \cup {"%", "/", Micro, Mu, MidDot, "-"}

NoCandidate == [found |-> FALSE, value |-> <<>>, units |-> NullText]

\* NumberEnd with "," accepted as decimal separator as well: [-+]?\d+(?:[\.,]\d+)?
DecimalEnd(s, i) ==
  LET j0 == IF i <= Len(s) /\ s[i] \in {"-", "+"} THEN i + 1 ELSE i
      j1 == SkipDigits(s, j0)
      j2 == SkipDigits(s, j1 + 1)
  IN  IF j1 = j0 THEN 0
      ELSE IF j1 <= Len(s) /\ s[j1] \in {".", ","} /\ j2 > j1 + 1 THEN j2
      ELSE j1

parseNumericToken(token) ==
  LET normalized == commasToDots(token)
      e == DecimalEnd(token, 1)
      rest == SubSeq(token, e, Len(token))
  IN  IF NumberEnd(normalized, 1, {"-", "+"}) = Len(normalized) + 1
      THEN [found |-> TRUE, value |-> normalized, units |-> NullText]
      ELSE IF e > 0 /\ rest # <<>> /\ \A i \in DOMAIN rest : rest[i] \in AttachedUnitChars
      THEN [found |-> TRUE, value |-> commasToDots(SubSeq(token, 1, e - 1)), units |-> rest]
      ELSE NoCandidate

includes(s, c) == \E i \in DOMAIN s : s[i] = c
hasLetter(s) == \E i \in DOMAIN s : s[i] \in LowerLetters \cup UpperLetters

looksLikeUnitToken(token) ==
  IF token = <<>> THEN FALSE
  ELSE LET trimmed == toLowerCase(token)
       IN  IF Len(trimmed) < 2 /\ ~includes(trimmed, "%") THEN FALSE
           ELSE \/ hasLetter(trimmed)
                \/ includes(trimmed, "/")
                \/ includes(trimmed, MidDot)
                \/ includes(trimmed, "%")
                \/ includes(trimmed, Micro)
                \/ includes(trimmed, Mu)

\* text.split(/\s+/).filter(Boolean)
RECURSIVE splitTokens(_)
splitTokens(text) ==
  LET t == TrimStart(text)
  IN  IF t = <<>> THEN <<>>
      ELSE LET ends == {i \in 1..Len(t) : t[i] \in WhiteSpace}
               e == IF ends = {} THEN Len(t) + 1 ELSE CHOOSE i \in ends : \A j \in ends : i <= j
           IN  <<SubSeq(t, 1, e - 1)>> \o splitTokens(SubSeq(t, e, Len(t)))

QualifierWords ==
  {<<"h", "a", "s", "t", "a">>, <<"a", "t", "e">>, <<"t", "o">>, <<"a">>, <<"s", "u", "p">>,
   <<"i", "n", "f">>, <<"m", "a", "x">>, <<"m", "i", "n">>, <<"d", "e", "s", "d", "e">>}

Comparators == {<<"<">>, <<">">>, <<"<", "=">>, <<">", "=">>, <<"=", "<">>, <<"=", ">">>}

\* /^[0-9]+(?:[/^]|x10)/.test(t)
startsSecondBound(t) ==
  LET e == SkipDigits(t, 1)
  IN  /\ e > 1
      /\ e <= Len(t)
      /\ \/ t[e] \in {"/", "^"}
         \/ SubSeq(t, e, e + 2) = <<"x", "1", "0">>

\* the checks of one numeric token that make findValueCandidate pass it over
rejectCandidate(candidate, prevLower, nextLower) ==
  \/ candidate.units # NullText /\ includes(candidate.units, "^")
  \/ /\ candidate.units # NullText
     /\ Len(candidate.units) <= 1
     /\ ~hasLetter(candidate.units)
     /\ includes(candidate.units, "/")
  \/ nextLower \in {<<"-">>, <<EnDash>>}
  \/ prevLower \in {<<"-">>, <<EnDash>>}
  \/ startsSecondBound(nextLower) /\ ~hasLetter(nextLower)
  \/ prevLower \in QualifierWords
  \/ prevLower \in Comparators

candidateUnits(candidate, prev, next) ==
  IF candidate.units # NullText THEN candidate.units
  ELSE IF looksLikeUnitToken(next) THEN next
  ELSE IF looksLikeUnitToken(prev) /\ ~parseNumericToken(prev).found THEN prev
  ELSE NullText

RECURSIVE findValueFrom(_, _)
findValueFrom(tokens, i) ==
  IF i > Len(tokens) THEN NoCandidate
  ELSE LET candidate == parseNumericToken(tokens[i])
           next == IF i + 1 <= Len(tokens) THEN tokens[i + 1] ELSE <<>>
           prev == IF i - 1 >= 1 THEN tokens[i - 1] ELSE <<>>
       IN  IF ~candidate.found THEN findValueFrom(tokens, i + 1)
           ELSE IF rejectCandidate(candidate, toLowerCase(prev), toLowerCase(next))
           THEN findValueFrom(tokens, i + 1)
           ELSE [found |-> TRUE, value |-> candidate.value,
                 units |-> candidateUnits(candidate, prev, next)]

findValueCandidate(text) == findValueFrom(splitTokens(text), 1)

\* the names and aliases of the biomarker catalog
Name_Glucosa == <<"G", "l", "u", "c", "o", "s", "a">>
Name_ColesterolTotal ==
  <<"C", "o", "l", "e", "s", "t", "e", "r", "o", "l", " ", "T", "o", "t", "a", "l">>
Name_Transferrina == <<"T", "r", "a", "n", "s", "f", "e", "r", "r", "i", "n", "a">>
Name_SaturacionTransferrina ==
  <<"S", "a", "t", "u", "r", "a", "c", "i", "o_acute", "n", " ", "d", "e", " ", "T", "r", "a",
    "n", "s", "f", "e", "r", "r", "i", "n", "a">>
Alias_glucosa == <<"g", "l", "u", "c", "o", "s", "a">>
Alias_colesterol_total ==
  <<"c", "o", "l", "e", "s", "t", "e", "r", "o", "l", " ", "t", "o", "t", "a", "l">>
Alias_colesterol == <<"c", "o", "l", "e", "s", "t", "e", "r", "o", "l">>
Alias_transferrina == <<"t", "r", "a", "n", "s", "f", "e", "r", "r", "i", "n", "a">>
Alias_saturacion_de_transferrina ==
  <<"s", "a", "t", "u", "r", "a", "c", "i", "o", "n", " ", "d", "e", " ", "t", "r", "a", "n",
    "s", "f", "e", "r", "r", "i", "n", "a">>
Alias_ist == <<"i", "s", "t">>
Alias_saturacion == <<"s", "a", "t", "u", "r", "a", "c", "i", "o", "n">>

\* the catalog of utils/biomarkerMap: canonical name -> aliases, category
SUPPORTED_BIOMARKERS ==
  <<[name |-> Name_Glucosa, aliases |-> <<Alias_glucosa>>, category |-> "metabolic"],
    [name |-> Name_ColesterolTotal, aliases |-> <<Alias_colesterol, Alias_colesterol_total>>,
     category |-> "cardiovascular"],
    [name |-> Name_Transferrina, aliases |-> <<Alias_transferrina>>, category |-> "general"],
    [name |-> Name_SaturacionTransferrina,
     aliases |-> <<Alias_ist, Alias_saturacion_de_transferrina>>, category |-> "general"]>>

categoryOf(canonical) ==
  SUPPORTED_BIOMARKERS[
    CHOOSE i \in DOMAIN SUPPORTED_BIOMARKERS : SUPPORTED_BIOMARKERS[i].name = canonical].category

\* aliasToName[key] = name on an object kept as its list of entries: a key
\* that exists keeps its place and takes the new name
setAlias(entries, key, name) ==
  IF \E i \in DOMAIN entries : entries[i].alias = key
  THEN [i \in DOMAIN entries |->
          IF entries[i].alias = key THEN [alias |-> key, canonical |-> name] ELSE entries[i]]
  ELSE Append(entries, [alias |-> key, canonical |-> name])

RECURSIVE addAliases(_, _, _, _)
addAliases(entries, meta, name, i) ==
  IF i > Len(meta.aliases) THEN setAlias(entries, normalize(name), name)
  ELSE addAliases(setAlias(entries, normalize(meta.aliases[i]), name), meta, name, i + 1)

RECURSIVE buildAliasToName(_, _)
buildAliasToName(entries, i) ==
  IF i > Len(SUPPORTED_BIOMARKERS) THEN entries
  ELSE buildAliasToName(
         addAliases(entries, SUPPORTED_BIOMARKERS[i], SUPPORTED_BIOMARKERS[i].name, 1), i + 1)

aliasToName == buildAliasToName(<<>>, 1)

\* the stable sort by (b, a) => b[0].length - a[0].length: e goes behind
\* every sorted entry that is at least as long
RECURSIVE insertByLength(_, _)
insertByLength(sorted, e) ==
  IF sorted = <<>> THEN <<e>>
  ELSE IF Len(sorted[1].alias) >= Len(e.alias) THEN <<sorted[1]>> \o insertByLength(Tail(sorted), e)
  ELSE <<e>> \o sorted

RECURSIVE sortByLength(_)
sortByLength(entries) ==
  IF entries = <<>> THEN <<>>
  ELSE insertByLength(sortByLength(SubSeq(entries, 1, Len(entries) - 1)), entries[Len(entries)])

\* the alias entries in the order the catalog lists them
aliasEntries_unsorted == aliasToName

aliasEntries == sortByLength(aliasToName)

\* /\bsaturacion\b/.test(line)
WordChars == LowerLetters \cup UpperLetters \cup Digits \cup {"_"}

hasWord(text, word) ==
  \E i \in 0..(Len(text) - Len(word)) :
    /\ SubSeq(text, i + 1, i + Len(word)) = word
    /\ (i = 0 \/ text[i] \notin WordChars)
    /\ (i + Len(word) = Len(text) \/ text[i + Len(word) + 1] \notin WordChars)

\* shouldSkip without any exclusion predicate
shouldSkip_never(canonical, text) == FALSE

\* skipForCanonical[canonical]?.(line)
shouldSkip(canonical, text) == canonical = Name_Transferrina /\ hasWord(text, Alias_saturacion)

\* line.slice(match.end)
slice(text, from) == SubSeq(text, from + 1, Len(text))

\* the tail that is the whole line
tailOf_wholeLine(text, m) == text

\* const tail = line.slice(match.end)
tailOf(text, m) == slice(text, m.end)

NoHit == [found |-> FALSE, alias |-> <<>>, canonical |-> <<>>, match |-> NoMatch,
          candidate |-> NoCandidate]

\* the scan of one normalized line over the alias entries from index i on:
\* the entry at which the loop reaches its break, NoHit when it runs out
RECURSIVE scanAliases(_, _)
scanAliases(text, i) ==
  IF i > Len(aliasEntries) THEN NoHit
  ELSE LET e == aliasEntries[i]
           m == findAliasMatch(text, e.alias)
           candidate == findValueCandidate(tailOf(text, m))
       IN  IF ~m.found THEN scanAliases(text, i + 1)
           ELSE IF shouldSkip(e.canonical, text) THEN scanAliases(text, i + 1)
           ELSE IF ~candidate.found THEN scanAliases(text, i + 1)
           ELSE [found |-> TRUE, alias |-> e.alias, canonical |-> e.canonical, match |-> m,
                 candidate |-> candidate]

\* Number(rawVal)
toNumber(raw) ==
  IF raw # <<>> /\ NumberEnd(raw, 1, {"-", "+"}) = Len(raw) + 1 THEN parseFloat(raw) ELSE NaN

\* the record pushed for a hit
recordOf(h) ==
  LET rawVal == h.candidate.value
      numericValue == toNumber(rawVal)
      units == IF h.candidate.units = NullText \/ Trim(h.candidate.units) = <<>> THEN NullText
               ELSE Trim(h.candidate.units)
  IN  [biomarker |-> h.canonical,
       value |-> IF numericValue = NaN THEN [k |-> "string", n |-> 0, d |-> 0] ELSE numericValue,
       units |-> units,
       category |-> categoryOf(h.canonical)]

\* results.some(r => r.biomarker === canonical)
hasRecord(rs, canonical) == \E i \in DOMAIN rs : rs[i].biomarker = canonical

\* appendRecord that puts the record in front
appendRecord_front(rs, rec) == <<rec>> \o rs

\* results.push(...)
appendRecord(rs, rec) == Append(rs, rec)

\* pushRecord that appends also when the biomarker already has a record
pushRecord_noDedup(rs, h) == Append(rs, recordOf(h))

pushRecord(rs, h) == IF hasRecord(rs, h.canonical) THEN rs ELSE appendRecord(rs, recordOf(h))

\* the line as the loop sees it: normalize(l.trim())
normalizedLine(raw) == normalize(Trim(raw))

\* the hit of one raw line of the text; a line that normalizes to the empty
\* string is filtered out before the loop
lineHit(raw) == IF normalizedLine(raw) = <<>> THEN NoHit ELSE scanAliases(normalizedLine(raw), 1)

ParseIdle ==
  /\ line = <<>>
  /\ count = 0
  /\ hit = NoHit
  /\ results = <<>>
  /\ alias = <<>>
  /\ match = NoMatch
  /\ normText = <<>>

(***************************************************************************)
(* Local storage (utils/storage) and the reference provider at rest        *)
(***************************************************************************)
\* localStorage.getItem of a key never written: null
NoItem == [present |-> FALSE, json |-> <<>>]

\* the calls the reference provider makes: boot (call 0, made by the mount
\* effect) and the calls of reload (1, 2, ...)
MaxReloads == 2
Boot == 0
Callers == 0..MaxReloads

\* null, and the reference data of version v
NoData == [kind |-> "null", version |-> 0]
Ref(v) == [kind |-> "data", version |-> v]

\* localStorage.getItem(STORAGE_KEY) when the item was never written
NoRefItem == [present |-> FALSE, kind |-> "empty", value |-> NoData]

\* a call that has not started
IdleTask == [pc |-> "idle", fresh |-> NoData]

StoreIdle ==
  /\ analyses = NoItem
  /\ calls = <<>>

RefIdle ==
  /\ data = NoData
  /\ loading = TRUE
  /\ refItem = NoRefItem
  /\ tasks = [c \in Callers |-> IdleTask]
  /\ thrown = {}
  /\ fetches = 0
  /\ writes = 0

AppIdle == StoreIdle /\ RefIdle

(***************************************************************************)
(* Row scorer (dashboard)                                                  *)
(***************************************************************************)
MaxValue == 9     \* row values range over -MaxValue..MaxValue
MaxBound == 4     \* reference bounds range over -1..MaxBound
MaxRows == 2      \* longest row list given to computeScores

\* LEVEL_SCORE with the scores of regular and malo exchanged
LEVEL_SCORE_swapped ==
  [excelente |-> One, bueno |-> Rat(85, 100), regular |-> Rat(2, 10), malo |-> Rat(6, 10)]

LEVEL_SCORE ==
  [excelente |-> One, bueno |-> Rat(85, 100), regular |-> Rat(6, 10), malo |-> Rat(2, 10)]

\* cats with general listed first
cats_generalFirst == <<"general", "cardiovascular", "metabolic", "immune", "hormonal">>

cats == <<"cardiovascular", "metabolic", "immune", "hormonal", "general">>

TINY == Rat(1, 1000000000)   \* 1e-9
FIFTH == Rat(1, 5)           \* 0.2

\* const low = r.refLow ?? -Infinity ; const high = r.refHigh ?? Infinity
rowLow(r) == IF r.refLow = Null THEN NegInf ELSE r.refLow
rowHigh(r) == IF r.refHigh = Null THEN PosInf ELSE r.refHigh

\* rowWidth that always normalises by 20% of the value
rowWidth_valueOnly(low, high, v) == JsMax(TINY, JsMul(JsAbs(v), FIFTH))

rowWidth(low, high, v) ==
  IF isFinite(low) /\ isFinite(high)
  THEN JsMax(TINY, JsSub(high, low))
  ELSE JsMax(TINY, JsMul(JsAbs(v), FIFTH))

rowDist(low, high, v) == IF JsLt(v, low) THEN JsSub(low, v) ELSE JsSub(v, high)

\* penalty = dist / width ; score = Math.max(0, 1 - penalty).  For finite
\* operands the quotient is formed only when it is below 1: a penalty of 1
\* or more gives 0 under the max, and dist / 1e-9 does not fit 32 bits.
rowPenaltyScore(dist, width) ==
  IF isFinite(dist) /\ isFinite(width)
  THEN IF dist.n = 0 THEN One
       ELSE IF ~RatLt(dist, width) THEN Zero
       ELSE JsMax(Zero, JsSub(One, JsDiv(dist, width)))
  ELSE JsMax(Zero, JsSub(One, JsDiv(dist, width)))

\* rowScore whose in-range test excludes the bounds
rowScore_exclusiveBounds(r) ==
  IF r.refLow = Null /\ r.refHigh = Null THEN One
  ELSE LET low == rowLow(r)
           high == rowHigh(r)
           v == r.value
       IN  IF JsLt(low, v) /\ JsLt(v, high) THEN One
           ELSE rowPenaltyScore(rowDist(low, high, v), rowWidth(low, high, v))

rowScore(r) ==
  IF r.refLow = Null /\ r.refHigh = Null THEN One
  ELSE LET low == rowLow(r)
           high == rowHigh(r)
           v == r.value
       IN  IF JsGeq(v, low) /\ JsLeq(v, high) THEN One
           ELSE rowPenaltyScore(rowDist(low, high, v), rowWidth(low, high, v))

\* rowScore of src/utils/scoringUtil: a precomputed level goes through
\* LEVEL_SCORE, anything else through the numeric distance
scoringUtil_rowScore(r) ==
  IF r.referenceLevel # NoLevel THEN LEVEL_SCORE[r.referenceLevel] ELSE rowScore(r)

RECURSIVE SumScores(_)
SumScores(rs) ==
  IF rs = <<>> THEN Zero
  ELSE JsAdd(SumScores(SubSeq(rs, 1, Len(rs) - 1)), rowScore(rs[Len(rs)]))

\* meanScore that gives 0 for an empty list
meanScore_emptyZero(arr) == IF Len(arr) > 0 THEN JsDiv(SumScores(arr), Num(Len(arr))) ELSE Zero

\* arr.length ? arr.map(rowScore).reduce((a, b) => a + b, 0) / arr.length : 1
meanScore(arr) == IF Len(arr) > 0 THEN JsDiv(SumScores(arr), Num(Len(arr))) ELSE One

\* rowCategory that keeps an unrecognized category
rowCategory_keepUnknown(r) == r.category

\* cats.includes(r.category || "") ? r.category : "general"
rowCategory(r) == IF r.category \in Range(cats) THEN r.category ELSE "general"

computeScores(rs) ==
  LET byCat(c) == SelectSeq(rs, LAMBDA r : rowCategory(r) = c)
  IN  [overall |-> meanScore(rs),
       catScores |-> [i \in DOMAIN cats |-> [category |-> cats[i], score |-> meanScore(byCat(cats[i]))]]]

MkRow(v, lo, hi, c, lvl) ==
  [value |-> v, refLow |-> lo, refHigh |-> hi, category |-> c, referenceLevel |-> lvl]

RowValues == {Num(i) : i \in (-MaxValue)..MaxValue} \cup {PosInf, NegInf}
RowBounds == {Num(i) : i \in (-1)..MaxBound} \cup {Null, PosInf, NegInf}
RowCategories == Range(cats) \cup {"", "lipids"}

\* the rows given to rowScore
ScoredRows ==
  {MkRow(v, lo, hi, "general", lvl) :
     v \in RowValues, lo \in RowBounds, hi \in RowBounds, lvl \in LevelKeys \cup {NoLevel}}

\* rows with an upper bound at most and a value that is not a whole number
FractionalRows ==
  {MkRow(v, Null, hi, "general", NoLevel) :
     v \in {Rat(11, 10), Rat(5, 4), Rat(9, 2)}, hi \in RowBounds}

\* the rows given to computeScores: reference range 2..4
ListedRows ==
  {MkRow(v, Num(2), Num(4), c, NoLevel) : v \in {Num(3), Num(5), Num(6), PosInf}, c \in RowCategories}

NoRow == MkRow(Zero, Null, Null, "", NoLevel)

ScoreInit ==
  /\ op = "init"
  /\ row \in ScoredRows \cup FractionalRows \cup {NoRow}
  /\ score = Null
  /\ rows = <<>>
  /\ scores = computeScores(<<>>)
  /\ LevelIdle
  /\ ParseIdle
  /\ AppIdle

\* the dashboard scores the row
ScoreRow ==
  /\ op = "init"
  /\ row # NoRow
  /\ row.referenceLevel = NoLevel
  /\ op' = "rowScore"
  /\ score' = rowScore(row)
  /\ UNCHANGED <<row, rows, scores, levelVars, parseVars, appVars>>

\* the wellbeing dashboard scores the row through scoringUtil
ScoreRowUtil ==
  /\ op = "init"
  /\ row # NoRow
  /\ op' = "scoringUtil"
  /\ score' = scoringUtil_rowScore(row)
  /\ UNCHANGED <<row, rows, scores, levelVars, parseVars, appVars>>

\* the selected analysis gains a row and the scores are recomputed
ScoreRows ==
  \E r \in ListedRows :
    /\ row = NoRow
    /\ Len(rows) < MaxRows
    /\ op' = "computeScores"
    /\ rows' = Append(rows, r)
    /\ scores' = computeScores(rows')
    /\ UNCHANGED <<row, score, levelVars, parseVars, appVars>>

ScoreNext == ScoreRow \/ ScoreRowUtil \/ ScoreRows

ScoreIdle ==
  /\ row = NoRow
  /\ score = Null
  /\ rows = <<>>
  /\ scores = computeScores(<<>>)

LevelInit ==
  /\ op = "init"
  /\ entry \in Entries
  /\ value \in LevelValues
  /\ sex \in Sexes
  /\ level = NoLevel
  /\ ScoreIdle
  /\ ParseIdle
  /\ AppIdle

SpecScore == ScoreInit /\ [][ScoreNext]_vars

\* levelUtils evaluates the value against the entry
ComputeLevel ==
  /\ op = "init"
  /\ op' = "computeLevel"
  /\ level' = computeLevel(entry, value, sex)
  /\ UNCHANGED <<entry, value, sex, scoreVars, parseVars, appVars>>

\* the dashboard evaluates the value against the entry, always with sex U
DashboardComputeLevel ==
  /\ op = "init"
  /\ sex = "U"
  /\ op' = "dashboard_computeLevel"
  /\ level' = dashboard_computeLevel(entry, value, "U")
  /\ UNCHANGED <<entry, value, sex, scoreVars, parseVars, appVars>>

LevelNext == ComputeLevel \/ DashboardComputeLevel

SpecLevel == LevelInit /\ [][LevelNext]_vars

(***************************************************************************)
(* The extractor reads a text line by line                                 *)
(***************************************************************************)
MaxParts == 4     \* parts of a line given to findAliasMatch
MaxTail == 4      \* tokens after the head of a line given to the extractor
MaxLines == 2     \* lines of a text

Head_glucosa == <<"g", "l", "u", "c", "o", "s", "a">>
Head_3_glucosa == <<"3", " ", "g", "l", "u", "c", "o", "s", "a">>
Head_glucosamina == <<"g", "l", "u", "c", "o", "s", "a", "m", "i", "n", "a", ":">>
Head_Glucosa ==
  <<"G", "l", "u", "c", "o", "s", "a", " ", ".", ".", ".", ".", ".", ".", ".", ".", ".", ".",
    ".", ".">>
Head_colesterol == <<"c", "o", "l", "e", "s", "t", "e", "r", "o", "l">>
Head_ColesterolTotal ==
  <<"C", "o", "l", "e", "s", "t", "e", "r", "o", "l", " ", "T", "o", "t", "a", "l", ":">>
Head_transferrina == <<"t", "r", "a", "n", "s", "f", "e", "r", "r", "i", "n", "a">>
Head_Saturacion ==
  <<"S", "a", "t", "u", "r", "a", "c", "i", "o_acute", "n", " ", "d", "e", " ", "T", "r", "a",
    "n", "s", "f", "e", "r", "r", "i", "n", "a">>
Head_none == <<"r", "e", "s", "u", "l", "t", "a", "d", "o">>
Tok_92 == <<"9", "2">>
Tok_150 == <<"1", "5", "0">>
Tok_dash == <<"-">>
Tok_ndash == <<"ndash">>
Tok_lt == <<"<">>
Tok_mgdL == <<"m", "g", "/", "d", "L">>
Tok_hasta == <<"h", "a", "s", "t", "a">>
Tok_glucosa == <<"g", "l", "u", "c", "o", "s", "a">>
Tok_colesterol_total ==
  <<"c", "o", "l", "e", "s", "t", "e", "r", "o", "l", " ", "t", "o", "t", "a", "l">>
Tok_7_5mg == <<"7", ",", "5", "m", "g">>
Tok_pct == <<"%">>
Tok_le == <<"<", "=">>
Tok_gt == <<">">>
Tok_ge == <<">", "=">>
Tok_el == <<"=", "<">>
Tok_eg == <<"=", ">">>
Tok_100 == <<"1", "0", "0">>
Tok_mgdl == <<"m", "g", "/", "d", "l">>
Tok_saturacion == <<"s", "a", "t", "u", "r", "a", "c", "i", "o", "n">>

Heads ==
  {Head_glucosa, Head_3_glucosa, Head_glucosamina, Head_Glucosa, Head_colesterol,
   Head_ColesterolTotal, Head_transferrina, Head_Saturacion, Head_none}

Tok_200 == <<"2", "0", "0">>
Tok_210 == <<"2", "1", "0">>
Tok_minus92 == <<"-", "9", "2">>
Tok_plus92 == <<"+", "9", "2">>
Tok_7c5 == <<"7", ",", "5">>
Tok_1c5c3 == <<"1", ",", "5", ",", "3">>

\* the tokens that follow a head in any combination
TailTokens == {Tok_92, Tok_150, Tok_dash, Tok_ndash, Tok_lt, Tok_mgdL}

\* further tokens, which follow a head in tails of at most two tokens
MoreTokens ==
  {Tok_hasta, Tok_glucosa, Tok_colesterol_total, Tok_7_5mg, Tok_pct, Tok_le, Tok_gt, Tok_ge,
   Tok_el, Tok_eg, Tok_100, Tok_mgdl, Tok_saturacion}

SeqsUpTo(S, n) == UNION {[1..k -> S] : k \in 0..n}

RECURSIVE JoinTokens(_)
JoinTokens(ts) == IF ts = <<>> THEN <<>> ELSE <<" ">> \o ts[1] \o JoinTokens(Tail(ts))

MkLine(head, ts) == head \o JoinTokens(ts)

\* the lines of the examples
ExampleLines ==
  {MkLine(Head_glucosa, <<Tok_lt, Tok_100, Tok_mgdl>>),
   MkLine(Head_colesterol, <<Tok_150, Tok_dash, Tok_200, Tok_mgdl>>),
   MkLine(Head_colesterol, <<Tok_150, Tok_ndash, Tok_200, Tok_mgdl>>),
   MkLine(Head_3_glucosa, <<Tok_92, Tok_mgdl>>),
   MkLine(Head_Glucosa, <<Tok_92, Tok_mgdl>>),
   MkLine(Head_glucosamina, <<Tok_92>>),
   MkLine(Head_Saturacion, <<Tok_92, Tok_pct>>),
   MkLine(Head_ColesterolTotal, <<Tok_92, Tok_glucosa, Tok_150>>),
   MkLine(Head_glucosa, <<Tok_92, Tok_colesterol_total>>),
   MkLine(Head_ColesterolTotal, <<Tok_210, Tok_mgdL>>),
   MkLine(Head_transferrina, <<Tok_saturacion, Tok_glucosa, Tok_92>>),
   MkLine(Head_glucosa, <<Tok_minus92, Tok_mgdl>>),
   MkLine(Head_glucosa, <<Tok_plus92, Tok_mgdl>>),
   MkLine(Head_glucosa, <<Tok_7c5, Tok_mgdl>>),
   MkLine(Head_glucosa, <<Tok_1c5c3, Tok_mgdl>>)}

\* the lines given to the extractor one at a time
ExtractLines ==
  {MkLine(h, ts) : h \in Heads, ts \in SeqsUpTo(TailTokens, MaxTail)}
    \cup {MkLine(h, ts) : h \in Heads, ts \in SeqsUpTo(TailTokens \cup MoreTokens, 2)}
    \cup {MkLine(h, <<Tok_92>> \o ts) : h \in Heads, ts \in SeqsUpTo(MoreTokens, 2)}
    \cup ExampleLines

\* the lines of the texts
TextLines ==
  {<<>>,
   MkLine(Head_Glucosa, <<Tok_92, Tok_mgdl>>),
   MkLine(Head_ColesterolTotal, <<Tok_150, Tok_mgdL>>),
   MkLine(Head_glucosa, <<Tok_100>>),
   MkLine(Head_glucosa, <<Tok_mgdl>>),
   MkLine(Head_ColesterolTotal, <<Tok_150, Tok_glucosa, Tok_92>>),
   MkLine(Head_3_glucosa, <<Tok_92, Tok_colesterol_total, Tok_100>>),
   MkLine(Head_transferrina, <<Tok_150>>),
   MkLine(Head_Saturacion, <<Tok_92, Tok_pct>>),
   MkLine(Head_transferrina, <<Tok_150, Tok_saturacion>>),
   MkLine(Head_none, <<Tok_92>>)}

\* the parts lines are put together from for findAliasMatch
AliasParts == {Alias_glucosa, Alias_ist, <<"m">>, <<"9">>, <<" ">>, <<"-">>, <<":">>}

RECURSIVE Concat(_)
Concat(ps) == IF ps = <<>> THEN <<>> ELSE ps[1] \o Concat(Tail(ps))

AliasLines == {normalize(Concat(ps)) : ps \in SeqsUpTo(AliasParts, MaxParts)}

AliasInit ==
  /\ op = "init"
  /\ line \in AliasLines
  /\ alias \in {Alias_glucosa, Alias_ist}
  /\ match = NoMatch
  /\ normText = <<>>
  /\ count = 0
  /\ hit = NoHit
  /\ results = <<>>
  /\ ScoreIdle
  /\ LevelIdle
  /\ AppIdle

\* the scan of a line looks for one alias
FindAliasMatch ==
  /\ op = "init"
  /\ op' = "findAliasMatch"
  /\ match' = findAliasMatch(line, alias)
  /\ UNCHANGED <<line, alias, count, hit, results, normText, scoreVars, levelVars, appVars>>

SpecAlias == AliasInit /\ [][FindAliasMatch]_vars

\* a single line, no record yet
ExtractInit ==
  /\ op = "read"
  /\ line \in ExtractLines
  /\ count = 0
  /\ hit = NoHit
  /\ results = <<>>
  /\ alias = <<>>
  /\ match = NoMatch
  /\ normText = <<>>
  /\ ScoreIdle
  /\ LevelIdle
  /\ AppIdle

\* the first line of a text
ParseInit ==
  /\ op = "read"
  /\ line \in TextLines
  /\ count = 0
  /\ hit = NoHit
  /\ results = <<>>
  /\ alias = <<>>
  /\ match = NoMatch
  /\ normText = <<>>
  /\ ScoreIdle
  /\ LevelIdle
  /\ AppIdle

\* ParseLine that starts the records afresh at a line without a hit
ParseLine_resetOnMiss ==
  /\ op = "read"
  /\ op' = "parsed"
  /\ hit' = lineHit(line)
  /\ results' = IF hit'.found THEN pushRecord(results, hit') ELSE <<>>
  /\ count' = count + 1
  /\ UNCHANGED <<line, alias, match, normText, scoreVars, levelVars, appVars>>

\* one iteration of the loop over the lines: scan the aliases, push a record
ParseLine ==
  /\ op = "read"
  /\ op' = "parsed"
  /\ hit' = lineHit(line)
  /\ results' = IF hit'.found THEN pushRecord(results, hit') ELSE results
  /\ count' = count + 1
  /\ UNCHANGED <<line, alias, match, normText, scoreVars, levelVars, appVars>>

\* the text has a further line
ReadLine ==
  \E l \in TextLines :
    /\ op = "parsed"
    /\ count < MaxLines
    /\ op' = "read"
    /\ line' = l
    /\ UNCHANGED <<count, hit, results, alias, match, normText, scoreVars, levelVars, appVars>>

ExtractNext == ParseLine

ParseNext == ParseLine \/ ReadLine

SpecExtract == ExtractInit /\ [][ExtractNext]_vars

SpecParse == ParseInit /\ [][ParseNext]_vars

MaxChars == 4     \* characters of a string given to normalize

\* the characters the strings given to normalize are made of
NormalizeChars ==
  {"a", "G", "o_acute", "N_tilde", "9", " ", "\t", "<", "^", MidDot, Micro, EnDash, "-"}

NormalizeInit ==
  /\ op = "init"
  /\ line \in SeqsUpTo(NormalizeChars, MaxChars)
  /\ normText = <<>>
  /\ count = 0
  /\ hit = NoHit
  /\ results = <<>>
  /\ alias = <<>>
  /\ match = NoMatch
  /\ ScoreIdle
  /\ LevelIdle
  /\ AppIdle

\* a line or an alias is normalized
Normalize ==
  /\ op = "init"
  /\ op' = "normalize"
  /\ normText' = normalize(line)
  /\ UNCHANGED <<line, count, hit, results, alias, match, scoreVars, levelVars, appVars>>

SpecNormalize == NormalizeInit /\ [][Normalize]_vars

(***************************************************************************)
(* The store of analyses (utils/storage)                                   *)
(***************************************************************************)
MaxCalls == 4     \* calls of saveAnalysis and removeAnalysis

\* JSON.stringify of a biomarker record: a member whose value is undefined
\* is left out
stringifyRecord(rec) ==
  [f \in {"biomarker", "value", "category"}
         \cup (IF rec.units = NullText THEN {} ELSE {"units"}) |-> rec[f]]

\* JSON.parse of the text of a biomarker record; reading a member the text
\* does not have gives undefined
parseRecord(j) ==
  [biomarker |-> j.biomarker,
   value |-> j.value,
   units |-> IF "units" \in DOMAIN j THEN j.units ELSE NullText,
   category |-> j.category]

\* JSON.stringify of a list of analyses
JSON_stringify(as) ==
  [i \in DOMAIN as |->
     [id |-> as[i].id, name |-> as[i].name,
      data |-> [k \in DOMAIN as[i].data |-> stringifyRecord(as[i].data[k])]]]

\* JSON.parse of the text of a list of analyses
JSON_parse(js) ==
  [i \in DOMAIN js |->
     [id |-> js[i].id, name |-> js[i].name,
      data |-> [k \in DOMAIN js[i].data |-> parseRecord(js[i].data[k])]]]

\* localStorage.setItem(STORAGE_KEY, JSON.stringify(as))
setItem(as) == [present |-> TRUE, json |-> JSON_stringify(as)]

getAnalyses(item) == IF item.present THEN JSON_parse(item.json) ELSE <<>>

\* saveAnalysis that replaces the entries that have the id of the analysis
saveAnalysis_upsert(item, analysis) ==
  setItem(Append(SelectSeq(getAnalyses(item), LAMBDA a : a.id # analysis.id), analysis))

saveAnalysis(item, analysis) ==
  LET stored == getAnalyses(item)
      updated == Append(stored, analysis)
  IN  setItem(updated)

removeAnalysis(item, id) ==
  setItem(SelectSeq(getAnalyses(item), LAMBDA a : a.id # id))

\* the ids handlePdfParsed draws, the names it makes from the date and the
\* records the extractor hands to it
AnalysisIds == {"id-1", "id-2"}
AnalysisNames == {"Analitica 1/11/2026", "Analitica 2/11/2026"}
ParsedData ==
  {pushRecord(<<>>, lineHit(l)) :
     l \in {MkLine(Head_Glucosa, <<Tok_92, Tok_mgdl>>), MkLine(Head_glucosa, <<Tok_100>>)}}
Analyses == [id : AnalysisIds, name : AnalysisNames, data : ParsedData]

NoAnalysis == [id |-> "", name |-> "", data |-> <<>>]

StoreInit ==
  /\ op = "store"
  /\ ScoreIdle
  /\ LevelIdle
  /\ ParseIdle
  /\ AppIdle

\* handlePdfParsed: saveAnalysis({id, name, data})
SaveAnalysis ==
  /\ op = "store"
  /\ Len(calls) < MaxCalls
  /\ \E analysis \in Analyses :
       /\ analyses' = saveAnalysis(analyses, analysis)
       /\ calls' = Append(calls, [kind |-> "save", id |-> analysis.id, analysis |-> analysis])
  /\ UNCHANGED <<op, scoreVars, levelVars, parseVars, refVars>>

RemoveAnalysis ==
  /\ op = "store"
  /\ Len(calls) < MaxCalls
  /\ \E id \in AnalysisIds :
       /\ analyses' = removeAnalysis(analyses, id)
       /\ calls' = Append(calls, [kind |-> "remove", id |-> id, analysis |-> NoAnalysis])
  /\ UNCHANGED <<op, scoreVars, levelVars, parseVars, refVars>>

StoreNext == SaveAnalysis \/ RemoveAnalysis

SpecStore == StoreInit /\ [][StoreNext]_vars

(***************************************************************************)
(* The reference provider (reference/ReferenceProvider.tsx).  A call of    *)
(* boot or reload runs up to its first await in one step; every later      *)
(* step is the continuation of one settled promise.                        *)
(***************************************************************************)
\* what /reference_ranges.dashboard.json holds when it is fetched
ServerFiles == {Ref(1), Ref(2)}

\* the text JSON.stringify(json) written to the item
stringifyRef(json) == [present |-> TRUE, kind |-> "json", value |-> json]

\* the item before the provider mounts: never written, the empty string, a
\* text JSON.parse rejects, the text "null", and the text of reference data
InitialItems ==
  {NoRefItem,
   [present |-> TRUE, kind |-> "empty", value |-> NoData],
   [present |-> TRUE, kind |-> "garbage", value |-> NoData],
   stringifyRef(NoData),
   stringifyRef(Ref(1))}

\* loadFromLocalStorage that never finds a copy
loadFromLocalStorage_never(item) == NoData

\* !raw gives null, and so does a text JSON.parse throws on
loadFromLocalStorage(item) ==
  IF ~item.present \/ item.kind = "empty" THEN NoData
  ELSE IF item.kind = "garbage" THEN NoData
  ELSE item.value

\* if (local)
Found(local) == local.kind # "null"

\* the fetches not yet answered: fetch(...) or res.json() is pending
InFlight(c) == tasks[c].pc \in {"fetching", "parsing"}

RefInit ==
  /\ op = "ref"
  /\ ScoreIdle
  /\ LevelIdle
  /\ ParseIdle
  /\ StoreIdle
  /\ data = NoData
  /\ loading = TRUE
  /\ refItem \in InitialItems
  /\ tasks = [c \in Callers |-> IdleTask]
  /\ thrown = {}
  /\ fetches = 0
  /\ writes = 0

\* the mount effect calls boot: with a copy in the item boot sets data and
\* returns through finally; without one it starts the fetch and awaits
StartBoot ==
  /\ op = "ref"
  /\ tasks[Boot].pc = "idle"
  /\ LET local == loadFromLocalStorage(refItem)
     IN  IF Found(local)
         THEN /\ data' = local
              /\ loading' = FALSE
              /\ tasks' = [tasks EXCEPT ![Boot] = [pc |-> "done", fresh |-> NoData]]
              /\ fetches' = fetches
         ELSE /\ data' = data
              /\ loading' = TRUE
              /\ tasks' = [tasks EXCEPT ![Boot] = [pc |-> "fetching", fresh |-> NoData]]
              /\ fetches' = fetches + 1
  /\ UNCHANGED <<op, refItem, thrown, writes, scoreVars, levelVars, parseVars, storeVars>>

\* a consumer of the context calls reload once the provider has mounted:
\* setLoading(true) and the fetch is started
StartReload ==
  /\ op = "ref"
  /\ tasks[Boot].pc # "idle"
  /\ \E c \in Callers \ {Boot} :
       /\ tasks[c].pc = "idle"
       /\ \A b \in Callers \ {Boot} : b < c => tasks[b].pc # "idle"
       /\ tasks' = [tasks EXCEPT ![c] = [pc |-> "fetching", fresh |-> NoData]]
  /\ loading' = TRUE
  /\ fetches' = fetches + 1
  /\ UNCHANGED <<op, data, refItem, thrown, writes, scoreVars, levelVars, parseVars, storeVars>>

\* fetch(...) is rejected
FetchRejects ==
  /\ op = "ref"
  /\ \E c \in Callers :
       /\ tasks[c].pc = "fetching"
       /\ tasks' = [tasks EXCEPT ![c] = [pc |-> "failed", fresh |-> NoData]]
  /\ UNCHANGED <<op, data, loading, refItem, thrown, fetches, writes,
                 scoreVars, levelVars, parseVars, storeVars>>

\* fetch(...) is answered and res.json() is awaited
FetchResponds ==
  /\ op = "ref"
  /\ \E c \in Callers :
       /\ tasks[c].pc = "fetching"
       /\ tasks' = [tasks EXCEPT ![c] = [pc |-> "parsing", fresh |-> NoData]]
  /\ UNCHANGED <<op, data, loading, refItem, thrown, fetches, writes,
                 scoreVars, levelVars, parseVars, storeVars>>

\* res.json() is rejected: the answer is not JSON
JsonRejects ==
  /\ op = "ref"
  /\ \E c \in Callers :
       /\ tasks[c].pc = "parsing"
       /\ tasks' = [tasks EXCEPT ![c] = [pc |-> "failed", fresh |-> NoData]]
  /\ UNCHANGED <<op, data, loading, refItem, thrown, fetches, writes,
                 scoreVars, levelVars, parseVars, storeVars>>

\* res.json() gives the file: it is written to the item and returned
Persist ==
  /\ op = "ref"
  /\ \E c \in Callers, json \in ServerFiles :
       /\ tasks[c].pc = "parsing"
       /\ refItem' = stringifyRef(json)
       /\ tasks' = [tasks EXCEPT ![c] = [pc |-> "persisted", fresh |-> json]]
  /\ writes' = writes + 1
  /\ UNCHANGED <<op, data, loading, thrown, fetches, scoreVars, levelVars, parseVars, storeVars>>

\* res.json() gives the file and localStorage.setItem throws
PersistThrows ==
  /\ op = "ref"
  /\ \E c \in Callers :
       /\ tasks[c].pc = "parsing"
       /\ tasks' = [tasks EXCEPT ![c] = [pc |-> "failed", fresh |-> NoData]]
  /\ UNCHANGED <<op, data, loading, refItem, thrown, fetches, writes,
                 scoreVars, levelVars, parseVars, storeVars>>

\* fetchAndPersist has returned: setData(fresh), then finally
Complete ==
  /\ op = "ref"
  /\ \E c \in Callers :
       /\ tasks[c].pc = "persisted"
       /\ data' = tasks[c].fresh
       /\ tasks' = [tasks EXCEPT ![c] = [pc |-> "done", fresh |-> NoData]]
  /\ loading' = FALSE
  /\ UNCHANGED <<op, refItem, thrown, fetches, writes, scoreVars, levelVars, parseVars, storeVars>>

\* fetchAndPersist has thrown: boot catches and logs, reload does not catch;
\* then finally
Fail ==
  /\ op = "ref"
  /\ \E c \in Callers :
       /\ tasks[c].pc = "failed"
       /\ tasks' = [tasks EXCEPT ![c] = [pc |-> "done", fresh |-> NoData]]
       /\ thrown' = IF c = Boot THEN thrown ELSE thrown \cup {c}
  /\ loading' = FALSE
  /\ UNCHANGED <<op, data, refItem, fetches, writes, scoreVars, levelVars, parseVars, storeVars>>

RefNext ==
  \/ StartBoot
  \/ StartReload
  \/ FetchRejects
  \/ FetchResponds
  \/ JsonRejects
  \/ Persist
  \/ PersistThrows
  \/ Complete
  \/ Fail

SpecRef == RefInit /\ [][RefNext]_vars

\* the mount effect runs, every promise is settled and every continuation of
\* a settled promise is run; nothing makes a caller call reload
SpecRefLive ==
  /\ RefInit
  /\ [][RefNext]_vars
  /\ WF_vars(StartBoot)
  /\ WF_vars(FetchRejects \/ FetchResponds)
  /\ WF_vars(JsonRejects \/ Persist \/ PersistThrows)
  /\ WF_vars(Complete)
  /\ WF_vars(Fail)

(***************************************************************************)
(* Properties of the row scorer                                            *)
(***************************************************************************)
\* the row scored has two finite bounds with refLow < refHigh
RowHasRange ==
  /\ isFinite(row.refLow) /\ isFinite(row.refHigh) /\ isFinite(row.value)
  /\ JsLt(row.refLow, row.refHigh)

\* C8: with both bounds finite and refLow < refHigh, rowScore is 1 at either
\* bound, 1 - dist/(refHigh - refLow) while the value is less than one
\* range-width outside, and 0 from one range-width outside onwards.
C8_RowScoreLinearClamped ==
  (op = "rowScore" /\ RowHasRange) =>
    LET lo == row.refLow.n
        hi == row.refHigh.n
        v == row.value.n
        w == hi - lo
        dist == IF v < lo THEN lo - v ELSE IF v > hi THEN v - hi ELSE 0
    IN  /\ score.k = "num"
        /\ (dist = 0 => score = One)
        /\ (dist >= w => score = Zero)
        /\ (0 < dist /\ dist < w => score.n * w = score.d * (w - dist))

\* a value exactly one range-width above refHigh was scored 0
C8_Witness ==
  /\ op = "rowScore"
  /\ RowHasRange
  /\ row.value = JsAdd(row.refHigh, JsSub(row.refHigh, row.refLow))
  /\ score = Zero

\* C9: rowScore of a row whose value is a number other than NaN lies in
\* [0,1], and so do the category scores and the overall score of
\* computeScores.
C9_ScoresInUnitInterval ==
  /\ (op = "rowScore" => InUnit(score))
  /\ (op = "computeScores" =>
        /\ InUnit(scores.overall)
        /\ \A i \in DOMAIN scores.catScores : InUnit(scores.catScores[i].score))

RowInRange ==
  /\ (row.refLow = Null \/ JsLeq(row.refLow, row.value))
  /\ (row.refHigh = Null \/ JsLeq(row.value, row.refHigh))

\* C11: rowScore is exactly 1 when both bounds are absent, and exactly 1
\* whenever low <= value <= high, an absent low taken as -infinity and an
\* absent high as +infinity, bounds inclusive.
C11_RowScoreInRangeIsOne ==
  (op = "rowScore") =>
    /\ (row.refLow = Null /\ row.refHigh = Null => score = One)
    /\ (RowInRange => score = One)

\* a row with only an upper bound, its value exactly at that bound, scored 1
C11_Witness ==
  /\ op = "rowScore"
  /\ row.refLow = Null
  /\ row.refHigh = Num(4)
  /\ row.value = Num(4)
  /\ score = One

\* the category a row is counted in: its own when that is one of the five
\* names, general otherwise
CountedIn(r) ==
  IF r.category \in {"cardiovascular", "metabolic", "immune", "hormonal", "general"}
  THEN r.category ELSE "general"

\* the rows of the list counted in category c, in list order
RowsCountedIn(c) == SelectSeq(rows, LAMBDA r : CountedIn(r) = c)

\* C12: computeScores gives score 1 to every category that received no rows,
\* and overall 1 when the row list is empty.
C12_EmptyCategoryScoresOne ==
  /\ \A i \in DOMAIN scores.catScores :
        RowsCountedIn(scores.catScores[i].category) = <<>> => scores.catScores[i].score = One
  /\ (rows = <<>> => scores.overall = One)

\* one metabolic row scored below 1 while the empty categories scored 1
C12_Witness ==
  /\ op = "computeScores"
  /\ Len(rows) = 1
  /\ rows[1].category = "metabolic"
  /\ scores.overall = Rat(1, 2)
  /\ scores.catScores[1].score = One
  /\ scores.catScores[5].score = One

\* C13: for every row list, the empty one included, catScores has exactly
\* five entries whose categories are cardiovascular, metabolic, immune,
\* hormonal, general in this order, whatever the order or the categories of
\* the rows.
C13_CategoryOrderFixed ==
  /\ DOMAIN scores.catScores = 1..5
  /\ [i \in 1..5 |-> scores.catScores[i].category]
       = <<"cardiovascular", "metabolic", "immune", "hormonal", "general">>

\* a general row listed before a cardiovascular one, cardiovascular still
\* reported first
C13_Witness ==
  /\ op = "computeScores"
  /\ Len(rows) = 2
  /\ rows[1].category = "general"
  /\ rows[2].category = "cardiovascular"
  /\ scores.catScores[1].category = "cardiovascular"
  /\ scores.catScores[5].category = "general"

\* the arithmetic mean of rowScore over a non-empty list of rows
RECURSIVE TotalOf(_)
TotalOf(rs) == IF rs = <<>> THEN Zero ELSE JsAdd(TotalOf(Tail(rs)), rowScore(Head(rs)))

MeanOf(rs) == JsDiv(TotalOf(rs), Num(Len(rs)))

\* C14: every row is counted in exactly one of the five categories, its own
\* when that is one of the five names and general otherwise; the score of a
\* non-empty category is the mean of rowScore over the rows counted in it,
\* and overall is the mean of rowScore over all rows.
C14_ScoresAreMeans ==
  /\ \A j \in DOMAIN rows :
        Cardinality({i \in DOMAIN scores.catScores :
                       scores.catScores[i].category = CountedIn(rows[j])}) = 1
  /\ \A i \in DOMAIN scores.catScores :
        LET counted == RowsCountedIn(scores.catScores[i].category)
        IN  counted # <<>> => scores.catScores[i].score = MeanOf(counted)
  /\ (rows # <<>> => scores.overall = MeanOf(rows))

\* a row of an unrecognized category and a general row were averaged
\* together under general
C14_Witness ==
  /\ op = "computeScores"
  /\ Len(rows) = 2
  /\ rows[1].category = "lipids" /\ rows[1].value = Num(5)
  /\ rows[2].category = "general" /\ rows[2].value = Num(3)
  /\ scores.catScores[5].score = Rat(3, 4)
  /\ scores.overall = Rat(3, 4)

(***************************************************************************)
(* Properties of the rule evaluator                                        *)
(***************************************************************************)
\* the entry of the example: bueno "70 - 99", malo "< 70 o > 125"
ExampleEntry ==
  [excelente |-> NoRules, bueno |-> Unisex(Rule_70_99), regular |-> NoRules,
   malo |-> Unisex(Rule_lt70_o_gt125)]

\* C7: computeLevel returns the first of excelente, bueno, regular, malo
\* whose selected rule matches the value, and null when none does; the
\* example entry gives bueno for 85, malo for 60 and for 200, null for 110.
C7_ComputeLevelFirstMatch ==
  (op \in {"computeLevel", "dashboard_computeLevel"}) =>
    LET priority == <<"excelente", "bueno", "regular", "malo">>
        pick(l) == IF op = "computeLevel" THEN pickSexRule(entry, l, sex)
                   ELSE dashboard_pickSexRule(entry, l, sex)
        hits == {i \in 1..4 : Truthy(pick(priority[i])) /\ matchRule(pick(priority[i]), value)}
    IN  /\ hits = {} => level = NoLevel
        /\ hits # {} => level = priority[CHOOSE i \in hits : \A j \in hits : i <= j]
        /\ entry = ExampleEntry =>
             /\ value = Num(85) => level = "bueno"
             /\ value \in {Num(60), Num(200)} => level = "malo"
             /\ value = Num(110) => level = NoLevel

\* the example entry was evaluated at 200 and gave malo
C7_Witness ==
  /\ op = "computeLevel"
  /\ entry = ExampleEntry
  /\ value = Num(200)
  /\ level = "malo"

(***************************************************************************)
(* Properties of the extractor                                             *)
(***************************************************************************)
\* the heads that consist of one catalog alias
AliasHeads == {Head_glucosa, Head_colesterol, Head_transferrina}

\* the alias entries that match the normalized text at token boundaries
MatchingEntries(text) == {e \in Range(aliasEntries) : findAliasMatch(text, e.alias).found}

\* an acceptable value follows the match of the entry, whose biomarker is
\* not excluded on the text
Qualifies(e, text) ==
  /\ ~shouldSkip(e.canonical, text)
  /\ findValueCandidate(slice(text, findAliasMatch(text, e.alias).end)).found

\* C1: findAliasMatch returns an occurrence of the alias only if the
\* characters before and after it are absent or outside [a-z0-9], and it
\* finds a delimited occurrence whenever the line has one, also behind an
\* occurrence inside a longer token.
C1_AliasMatchDelimited ==
  (op = "findAliasMatch") =>
    LET n == Len(alias)
        alnum == LowerLetters \cup Digits
        occurs(i) == i + n <= Len(line) /\ SubSeq(line, i + 1, i + n) = alias
        delimited(i) ==
          /\ occurs(i)
          /\ (i = 0 \/ line[i] \notin alnum)
          /\ (i + n = Len(line) \/ line[i + n + 1] \notin alnum)
    IN  /\ match.found => delimited(match.start) /\ match.end = match.start + n
        /\ (\E i \in 0..Len(line) : delimited(i)) => match.found

\* the alias was found behind an occurrence inside a longer token
C1_Witness ==
  /\ op = "findAliasMatch"
  /\ match.found
  /\ \E i \in 0..(match.start - 1) : SubSeq(line, i + 1, i + Len(alias)) = alias

C3_ValueAfterAlias ==
  (op = "parsed") =>
    LET text == normalizedLine(line)
        after == splitTokens(slice(text, hit.match.end))
    IN  /\ hit.found =>
              /\ SubSeq(text, hit.match.start + 1, hit.match.end) = hit.alias
              /\ \E i \in DOMAIN after :
                   /\ parseNumericToken(after[i]).found
                   /\ parseNumericToken(after[i]).value = hit.candidate.value
              /\ results = <<recordOf(hit)>>
        /\ (line # <<>> /\ line[1] = "3") => \A i \in DOMAIN results : results[i].value # Num(3)
        /\ \A e \in MatchingEntries(text) :
             (\A i \in DOMAIN text : i > findAliasMatch(text, e.alias).end => text[i] \notin Digits)
               => ~(hit.found /\ hit.alias = e.alias)
        /\ line = MkLine(Head_3_glucosa, <<Tok_92, Tok_mgdl>>) =>
             results = <<[biomarker |-> Name_Glucosa, value |-> Num(92), units |-> Tok_mgdl,
                          category |-> "metabolic"]>>

\* "3 glucosa 92 mg/dl" gave the value 92
C3_Witness ==
  /\ op = "parsed"
  /\ line = MkLine(Head_3_glucosa, <<Tok_92, Tok_mgdl>>)
  /\ Len(results) = 1
  /\ results[1].value = Num(92)

\* C4: a line that is an alias followed by a range "a - b", with a dash or
\* an en-dash and possibly a unit behind it, yields no record with the
\* value a or b.
C4_RangeBoundsNotExtracted ==
  (op = "parsed") =>
    \A h \in AliasHeads, a \in {Tok_92, Tok_150}, b \in {Tok_92, Tok_150, Tok_200} :
      \A d \in {Tok_dash, Tok_ndash}, u \in {<<>>, <<Tok_mgdL>>, <<Tok_mgdl>>} :
        line = MkLine(h, <<a, d, b>> \o u) =>
          \A i \in DOMAIN results : results[i].value \notin {toNumber(a), toNumber(b)}

\* C5: a line that is an alias followed by a comparator and a number, and
\* possibly a unit, yields no record with that number as value.
C5_ComparatorNumberNotExtracted ==
  (op = "parsed") =>
    \A h \in AliasHeads, c \in {Tok_lt, Tok_gt, Tok_le, Tok_ge, Tok_el, Tok_eg} :
      \A n \in {Tok_92, Tok_100}, u \in {<<>>, <<Tok_mgdL>>, <<Tok_mgdl>>} :
        line = MkLine(h, <<c, n>> \o u) =>
          \A i \in DOMAIN results : results[i].value # toNumber(n)

\* C6: the results never hold two records of one biomarker; a record, once
\* pushed, never changes, and a line adds a record only for a biomarker
\* that has none, with the value extracted from that line.
C6_FirstRecordWins ==
  /\ [](\A i \in DOMAIN results : \A j \in DOMAIN results :
          results[i].biomarker = results[j].biomarker => i = j)
  /\ [][/\ \A i \in DOMAIN results : i \in DOMAIN results' /\ results'[i] = results[i]
        /\ results' # results =>
             /\ ~hasRecord(results, hit'.canonical)
             /\ results' = Append(results, results'[Len(results')])
             /\ results'[Len(results')].biomarker = hit'.canonical
             /\ results'[Len(results')].value = toNumber(hit'.candidate.value)]_vars

\* a later line gave another value for a biomarker already recorded
C6_Witness ==
  /\ op = "parsed"
  /\ hit.found
  /\ \E i \in DOMAIN results :
       /\ results[i].biomarker = hit.canonical
       /\ results[i].value # toNumber(hit.candidate.value)

\* C15: the normalizer is idempotent: normalizing a normalized string gives
\* the same string.
C15_NormalizeIdempotent ==
  (op = "normalize") => normalize(normText) = normText

\* a string with markup, an accent and doubled blanks at either end was
\* normalized to its bare letters
C15_Witness ==
  /\ op = "normalize"
  /\ line = <<"<", "o_acute", " ", "\t">>
  /\ normText = <<"o">>

\* the text holds the key as written, letter case included
OccursIn(text, key) ==
  \E i \in 1..(Len(text) - Len(key) + 1) : SubSeq(text, i, i + Len(key) - 1) = key

\* C16: the units of an extracted record keep the letter case of the unit as
\* it is written in the source line: 'Colesterol Total: 210 mg/dL' gives
\* value 210 with units 'mg/dL', and 'Glucosa ............ 92 mg/dl' gives
\* value 92 with units 'mg/dl'.
C16_UnitsKeepSourceCase ==
  (op = "parsed" /\ hit.found) =>
    /\ Len(results) = 1
    /\ (results[1].units # NullText => OccursIn(line, results[1].units))
    /\ (line = MkLine(Head_ColesterolTotal, <<Tok_210, Tok_mgdL>>) =>
          results[1].value = Num(210) /\ results[1].units = Tok_mgdL)
    /\ (line = MkLine(Head_Glucosa, <<Tok_92, Tok_mgdl>>) =>
          results[1].value = Num(92) /\ results[1].units = Tok_mgdl)

\* an acceptable value follows the match of the entry on the text
ValueFollows(e, text) == findValueCandidate(slice(text, findAliasMatch(text, e.alias).end)).found

\* no alias matches the line, or no acceptable value follows any alias that
\* matches
NothingToExtract(raw) ==
  \A e \in MatchingEntries(normalizedLine(raw)) : ~ValueFollows(e, normalizedLine(raw))

\* C17: the extractor is total: the scan of every line read, whatever it
\* holds, returns a hit or none, and the result is a list; every line read
\* is processed, and a line with no alias match or with no
\* acceptable value after the match adds no record and leaves the records
\* accumulated so far as they are.
C17_ExtractorTotal ==
  /\ [](/\ op = "read" =>
             LET h == lineHit(line)
             IN  /\ h.found \in BOOLEAN
                 /\ h.found => DOMAIN pushRecord(results, h) = 1..Len(pushRecord(results, h))
        /\ DOMAIN results = 1..Len(results))
  /\ [][(op = "read" /\ NothingToExtract(line)) =>
          /\ op' = "parsed"
          /\ ~hit'.found
          /\ results' = results]_vars

\* after a record, a line with an alias and a unit but no number left the
\* records as they were
C17_Witness ==
  /\ op = "parsed"
  /\ count = 2
  /\ line = MkLine(Head_glucosa, <<Tok_mgdl>>)
  /\ NothingToExtract(line)
  /\ Len(results) = 1

\* a rule text is present: there is one, and it is not empty
Present(t) == t # NullText /\ t # <<>>

\* the rule of a level for a sex as C18 states it, NullText for none
RuleFor(e, lvl, sx) ==
  LET set == e[lvl]
  IN  IF sx = "H" /\ Present(set.male) THEN set.male
      ELSE IF sx = "M" /\ Present(set.female) THEN set.female
      ELSE IF Present(set.unisex) THEN set.unisex
      ELSE IF Present(set.male) THEN set.male
      ELSE IF Present(set.female) THEN set.female
      ELSE NullText

\* C18: pickSexRule returns the rule of the sex when it is present (male for
\* H, female for M), otherwise the unisex rule if present, otherwise the
\* male rule if present, otherwise the female rule, otherwise none; and
\* computeLevel skips a level for which this gives none, so that the level
\* returned is the first whose rule so chosen matches.
C18_SexRuleFallback ==
  (op = "computeLevel") =>
    LET priority == <<"excelente", "bueno", "regular", "malo">>
        hits == {i \in 1..4 : /\ RuleFor(entry, priority[i], sex) # NullText
                               /\ matchRule(RuleFor(entry, priority[i], sex), value)}
    IN  /\ \A i \in 1..4 :
              LET picked == pickSexRule(entry, priority[i], sex)
              IN  IF RuleFor(entry, priority[i], sex) = NullText THEN ~Truthy(picked)
                  ELSE picked = RuleFor(entry, priority[i], sex)
        /\ hits = {} => level = NoLevel
        /\ hits # {} => level = priority[CHOOSE i \in hits : \A j \in hits : i <= j]

\* the positions of a rule text that hold a separator as C19 states them:
\* "/", ";", and a letter o that is a word of its own
IsWordChar(c) ==
  c \in {"a", "b", "c", "d", "e", "f", "g", "h", "i", "j", "k", "l", "m", "n", "o", "p", "q",
         "r", "s", "t", "u", "v", "w", "x", "y", "z", "A", "B", "C", "D", "E", "F", "G", "H",
         "I", "J", "K", "L", "M", "N", "O", "P", "Q", "R", "S", "T", "U", "V", "W", "X", "Y",
         "Z", "0", "1", "2", "3", "4", "5", "6", "7", "8", "9", "_"}

SeparatorAt(t, i) ==
  \/ t[i] \in {"/", ";"}
  \/ /\ t[i] \in {"o", "O"}
     /\ (i = 1 \/ ~IsWordChar(t[i - 1]))
     /\ (i = Len(t) \/ ~IsWordChar(t[i + 1]))

\* the sub-rules: the longest stretches of the text without a separator
SubRules(t) ==
  {SubSeq(t, ft[1], ft[2]) :
     ft \in {x \in (1..Len(t)) \X (1..Len(t)) :
               /\ x[1] <= x[2]
               /\ (x[1] = 1 \/ SeparatorAt(t, x[1] - 1))
               /\ (x[2] = Len(t) \/ SeparatorAt(t, x[2] + 1))
               /\ \A k \in x[1]..x[2] : ~SeparatorAt(t, k)}}

\* the rule matches: one of its sub-rules does
SomeSubRuleMatches(t, v) ==
  \E part \in SubRules(t) : Trim(part) # <<>> /\ matchSingleRule(Trim(part), v)

\* C19: matchRule splits a rule text only at "/", ";" and at the word o
\* standing alone (either case), never at a letter o inside a longer word,
\* and matches exactly when one of the sub-rules matches the value; the
\* level computed is the first whose rule matches in this sense.
C19_SplitAtSeparatorsOnly ==
  (op \in {"computeLevel", "dashboard_computeLevel"}) =>
    LET priority == <<"excelente", "bueno", "regular", "malo">>
        pick(l) == IF op = "computeLevel" THEN pickSexRule(entry, l, sex)
                   ELSE dashboard_pickSexRule(entry, l, sex)
        hits == {i \in 1..4 : Truthy(pick(priority[i])) /\ SomeSubRuleMatches(pick(priority[i]), value)}
    IN  /\ \A i \in 1..4 :
              Truthy(pick(priority[i])) =>
                (matchRule(pick(priority[i]), value) <=> SomeSubRuleMatches(pick(priority[i]), value))
        /\ hits = {} => level = NoLevel
        /\ hits # {} => level = priority[CHOOSE i \in hits : \A j \in hits : i <= j]

\* a number written with a dot or a comma as decimal separator
IsDecimalText(t) == t # <<>> /\ NumberEnd(commasToDots(t), 1, {"-"}) = Len(t) + 1

DecimalOf(t) == parseFloat(commasToDots(t))

\* the positions of the dash of a range text "a - b"
RangeDashes(t) ==
  {i \in 2..(Len(t) - 1) :
     /\ t[i] \in {"-", EnDash}
     /\ IsDecimalText(Trim(SubSeq(t, 1, i - 1)))
     /\ IsDecimalText(Trim(SubSeq(t, i + 1, Len(t))))}

IsRangeText(t) == RangeDashes(t) # {}

\* the value lies between the two bounds of the range text, whichever is
\* written first
WithinRange(t, v) ==
  LET i == CHOOSE i \in RangeDashes(t) : TRUE
      a == DecimalOf(Trim(SubSeq(t, 1, i - 1)))
      b == DecimalOf(Trim(SubSeq(t, i + 1, Len(t))))
  IN  \/ JsLeq(a, v) /\ JsLeq(v, b)
      \/ JsLeq(b, v) /\ JsLeq(v, a)

\* C20: a range rule "a - b", with a dash or an en-dash and with either
\* bound written with a comma or a dot as decimal separator, matches exactly
\* the values between min(a,b) and max(a,b), bounds included, whichever
\* bound is written first; the level computed follows.
C20_RangeRuleInclusive ==
  (op \in {"computeLevel", "dashboard_computeLevel"}) =>
    LET priority == <<"excelente", "bueno", "regular", "malo">>
        pick(l) == IF op = "computeLevel" THEN pickSexRule(entry, l, sex)
                   ELSE dashboard_pickSexRule(entry, l, sex)
        matches(t) == IF IsRangeText(t) THEN WithinRange(t, value) ELSE matchRule(t, value)
        hits == {i \in 1..4 : Truthy(pick(priority[i])) /\ matches(pick(priority[i]))}
    IN  /\ \A i \in 1..4 :
              (Truthy(pick(priority[i])) /\ IsRangeText(pick(priority[i]))) =>
                (matchSingleRule(pick(priority[i]), value) <=> WithinRange(pick(priority[i]), value))
        /\ hits = {} => level = NoLevel
        /\ hits # {} => level = priority[CHOOSE i \in hits : \A j \in hits : i <= j]

\* the normalized text holds the word, delimited by characters other than
\* letters and digits
MentionsWord(text, word) ==
  \E i \in 1..(Len(text) - Len(word) + 1) :
    /\ SubSeq(text, i, i + Len(word) - 1) = word
    /\ (i = 1 \/ text[i - 1] \notin (LowerLetters \cup Digits))
    /\ (i + Len(word) > Len(text) \/ text[i + Len(word)] \notin (LowerLetters \cup Digits))

\* C21: on a line that holds the word saturacion, a match of an alias of
\* Transferrina gives no record, so Transferrina is never recorded from such
\* a line, and the scan goes on with the remaining aliases: a different
\* biomarker whose alias matches the line with an acceptable value behind it
\* is still recorded.
C21_ExcludedAliasSkipped ==
  (op = "parsed" /\ MentionsWord(normalizedLine(line), Alias_saturacion)) =>
    LET text == normalizedLine(line)
        others == {e \in MatchingEntries(text) : e.canonical # Name_Transferrina}
    IN  /\ \A i \in DOMAIN results : results[i].biomarker # Name_Transferrina
        /\ (hit.found => hit.canonical # Name_Transferrina)
        /\ ((\E e \in others : ValueFollows(e, text)) =>
              /\ hit.found
              /\ Len(results) = 1
              /\ results[1].biomarker = hit.canonical)

\* 'transferrina saturacion glucosa 92': the match of transferrina was passed
\* over and Glucosa was recorded
C21_Witness ==
  /\ op = "parsed"
  /\ line = MkLine(Head_transferrina, <<Tok_saturacion, Tok_glucosa, Tok_92>>)
  /\ findAliasMatch(normalizedLine(line), Alias_transferrina).found
  /\ Len(results) = 1
  /\ results[1].biomarker = Name_Glucosa
  /\ results[1].value = Num(92)

\* the alias entries of the line that yield an acceptable value for a
\* biomarker without a record so far
Unrecorded(raw, rs) ==
  {e \in MatchingEntries(normalizedLine(raw)) :
     Qualifies(e, normalizedLine(raw)) /\ ~hasRecord(rs, e.canonical)}

\* C22: the scan of a line stops only at a biomarker that has no record yet:
\* when the line yields an acceptable value for some biomarker without a
\* record, the line adds a record of such a biomarker, also when a longer
\* alias of the line yields a value for a biomarker already recorded.
C22_ScanPassesRecorded ==
  [][(op = "read" /\ Unrecorded(line, results) # {}) =>
       /\ Len(results') = Len(results) + 1
       /\ \E e \in Unrecorded(line, results) : results'[Len(results')].biomarker = e.canonical]_vars

\* the row scored has exactly one bound, a finite one, and a finite value
\* outside it
OutsideOneBound ==
  /\ isFinite(row.value)
  /\ \/ row.refLow = Null /\ isFinite(row.refHigh) /\ JsLt(row.refHigh, row.value)
     \/ row.refHigh = Null /\ isFinite(row.refLow) /\ JsLt(row.value, row.refLow)

\* the row scored has a positive upper bound and no lower bound
OnlyPositiveHigh == row.refLow = Null /\ isFinite(row.refHigh) /\ JsLt(Zero, row.refHigh)

\* C23: with exactly one bound present and the value outside it, rowScore is
\* max(0, 1 - dist/width) with width = max(1e-9, 0.2 * |value|) and dist the
\* distance past the bound; so with only a positive refHigh the score is 0
\* for every value >= 1.25 * refHigh and strictly between 0 and 1 for
\* refHigh < value < 1.25 * refHigh.
C23_OneSidedScore ==
  (op = "rowScore") =>
    /\ OutsideOneBound =>
          LET bound == IF row.refLow = Null THEN row.refHigh ELSE row.refLow
              vn == IAbs(row.value.n)
              \* dist / width = five / vn, both scaled by the denominators
              five == 5 * IAbs(row.value.n * bound.d - bound.n * row.value.d)
              whole == bound.d * vn
          IN  /\ score.k = "num"
              /\ (five >= whole => score = Zero)
              /\ (five < whole => score.n * whole = score.d * (whole - five))
    /\ (OnlyPositiveHigh /\ JsGeq(JsMul(Num(4), row.value), JsMul(Num(5), row.refHigh))) =>
          score = Zero
    /\ (OnlyPositiveHigh /\ JsLt(row.refHigh, row.value)
          /\ JsLt(JsMul(Num(4), row.value), JsMul(Num(5), row.refHigh))) =>
          JsLt(Zero, score) /\ JsLt(score, One)

\* the symbols the normalizer permits besides letters, digits and blanks
PermittedSymbols == {"/", "%", ".", ",", "-", Micro, Mu, "^", MidDot}

\* what becomes of one character of the input as C24 states it: a letter is
\* lowercased and loses its accent, a digit or a permitted symbol stays, and
\* a blank or a disallowed character gives a blank
KeptAs(c) ==
  IF c \in DOMAIN Precomposed THEN toLowerChar(Precomposed[c])
  ELSE IF c \in LowerLetters \cup UpperLetters THEN toLowerChar(c)
  ELSE IF c \in Digits \cup PermittedSymbols THEN c
  ELSE " "

\* the number of occurrences of the character in the text
RECURSIVE Occurrences(_, _)
Occurrences(text, c) ==
  IF text = <<>> THEN 0
  ELSE (IF Head(text) = c THEN 1 ELSE 0) + Occurrences(Tail(text), c)

\* the text with every stretch of blanks made one blank and the blanks at
\* either end removed
RECURSIVE OneBlank(_)
OneBlank(text) ==
  IF Len(text) < 2 THEN text
  ELSE IF text[1] = " " /\ text[2] = " " THEN OneBlank(Tail(text))
  ELSE <<text[1]>> \o OneBlank(Tail(text))

Squeezed(text) ==
  LET one == OneBlank(text)
      from == IF one # <<>> /\ one[1] = " " THEN 2 ELSE 1
      to == IF one # <<>> /\ one[Len(one)] = " " THEN Len(one) - 1 ELSE Len(one)
  IN  SubSeq(one, from, to)

\* C24: the output of the normalizer is lowercase, has no blank at either
\* end and no two blanks in a row, and holds only letters a-z, digits,
\* single blanks and the permitted symbols; every permitted symbol of the
\* input, '^' and the middle dot among them, is kept, and every disallowed
\* character gives a blank rather than nothing.
C24_NormalizeOutput ==
  (op = "normalize") =>
    /\ \A i \in DOMAIN normText : normText[i] \in LowerLetters \cup Digits \cup PermittedSymbols \cup {" "}
    /\ (normText # <<>> => normText[1] # " " /\ normText[Len(normText)] # " ")
    /\ \A i \in 1..(Len(normText) - 1) : ~(normText[i] = " " /\ normText[i + 1] = " ")
    /\ \A c \in PermittedSymbols : Occurrences(normText, c) = Occurrences(line, c)
    /\ normText = Squeezed([i \in DOMAIN line |-> KeptAs(line[i])])

\* the level the priority loop of the evaluation alone returned
LoopLevel ==
  IF op = "computeLevel" THEN firstMatch(order, 1, entry, value, sex)
  ELSE dashboard_firstMatch(order, 1, entry, value, sex)

\* the rule of malo the check after the loop looks at
BadRule ==
  IF op = "computeLevel" THEN pickSexRule(entry, "malo", sex)
  ELSE dashboard_pickSexRule(entry, "malo", sex)

\* C25: the check of the malo rule after the priority loop never returns
\* malo: whenever the loop returned no level the malo rule does not match
\* either, so the result of computeLevel is the result of the loop alone.
C25_FallbackNeverFires ==
  (op \in {"computeLevel", "dashboard_computeLevel"}) =>
    /\ level = LoopLevel
    /\ (LoopLevel = NoLevel => ~(Truthy(BadRule) /\ matchRule(BadRule, value)))

\* the loop found no level for 110, the malo rule "< 70 o > 125" was looked
\* at again and did not match
C25_Witness ==
  /\ op = "computeLevel"
  /\ entry = ExampleEntry
  /\ value = Num(110)
  /\ LoopLevel = NoLevel
  /\ Truthy(BadRule)
  /\ level = NoLevel

\* a signed decimal with a dot as separator: sign, digits, and possibly a
\* dot and digits
IsSignedDecimal(t) ==
  LET from == IF t # <<>> /\ t[1] \in {"-", "+"} THEN 2 ELSE 1
      dots == {i \in from..Len(t) : t[i] = "."}
  IN  /\ from <= Len(t)
      /\ \A i \in from..Len(t) : t[i] \in Digits \cup {"."}
      /\ Cardinality(dots) <= 1
      /\ \A i \in dots : i > from /\ i < Len(t)

\* C26: every record has a numeric value: the token the value search
\* returns is always a signed decimal with a dot as separator, so the branch
\* that would store the raw token is never taken.
C26_ValueIsNumeric ==
  (op = "parsed") =>
    /\ \A i \in DOMAIN results : results[i].value.k = "num"
    /\ (hit.found =>
          /\ IsSignedDecimal(hit.candidate.value)
          /\ toNumber(hit.candidate.value) # NaN)

\* 'glucosa 7,5mg': the decimal comma of the token was turned into a dot and
\* the record holds the number 7.5
C26_Witness ==
  /\ op = "parsed"
  /\ line = MkLine(Head_glucosa, <<Tok_7_5mg>>)
  /\ hit.candidate.value = <<"7", ".", "5">>
  /\ Len(results) = 1
  /\ results[1].value = Rat(15, 2)

\* C27: a line adds at most one record, and an empty line none: after k
\* lines the result holds at most k records; a record is added behind the
\* records of the lines before, so the records stand in the order of the
\* lines that gave them.
C27_OneRecordPerLine ==
  /\ [](Len(results) <= count)
  /\ [][/\ Len(results') <= Len(results) + 1
        /\ SubSeq(results', 1, Len(results)) = results
        /\ (normalizedLine(line) = <<>> => results' = results)
        /\ (Len(results') = Len(results) + 1 =>
              /\ op = "read"
              /\ results'[Len(results')].biomarker = hit'.canonical)]_vars

\* two lines gave two records, the record of the second line behind that of
\* the first
C27_Witness ==
  /\ op = "parsed"
  /\ count = 2
  /\ Len(results) = 2
  /\ results[1].biomarker = Name_Glucosa
  /\ results[2].biomarker = Name_ColesterolTotal
  /\ hit.canonical = Name_ColesterolTotal

(***************************************************************************)
(* Properties of the store of analyses                                     *)
(***************************************************************************)
\* call i saved an analysis and no later call removed its id
Survives(cs, i) ==
  /\ cs[i].kind = "save"
  /\ \A j \in (i + 1)..Len(cs) : ~(cs[j].kind = "remove" /\ cs[j].id = cs[i].id)

\* the analyses of the surviving saves from call i on, in the order of the calls
RECURSIVE SurvivingFrom(_, _)
SurvivingFrom(cs, i) ==
  IF i > Len(cs) THEN <<>>
  ELSE (IF Survives(cs, i) THEN <<cs[i].analysis>> ELSE <<>>) \o SurvivingFrom(cs, i + 1)

\* the entries other than those of the id, in their order
RECURSIVE Others(_, _)
Others(as, id) ==
  IF as = <<>> THEN <<>>
  ELSE (IF as[1].id = id THEN <<>> ELSE <<as[1]>>) \o Others(Tail(as), id)

\* C28: from an empty store, after any calls of saveAnalysis and
\* removeAnalysis, getAnalyses returns exactly the saved analyses whose id
\* no later call removed, in the order they were saved; a save appends at
\* the end and leaves the entries there unchanged, also when the id is
\* already there, and a removal deletes every entry of the id and leaves
\* the others and their order unchanged
C28_StoreKeepsSurvivingSaves ==
  /\ [](op = "store" => getAnalyses(analyses) = SurvivingFrom(calls, 1))
  /\ [][(op = "store" /\ calls' # calls) =>
          LET call == calls'[Len(calls')]
          IN  IF call.kind = "save"
              THEN getAnalyses(analyses') = Append(getAnalyses(analyses), call.analysis)
              ELSE getAnalyses(analyses') = Others(getAnalyses(analyses), call.id)]_vars

\* an id was saved twice and then removed while an analysis of another id,
\* saved in between, is still there
C28_Witness ==
  /\ op = "store"
  /\ \E i, j, k, m \in DOMAIN calls :
       /\ i < j /\ j < k /\ k < m
       /\ calls[i].kind = "save" /\ calls[j].kind = "save" /\ calls[k].kind = "save"
       /\ calls[m].kind = "remove"
       /\ calls[i].id = calls[k].id /\ calls[m].id = calls[i].id
       /\ calls[j].id # calls[i].id
       /\ getAnalyses(analyses) = <<calls[j].analysis>>

(***************************************************************************)
(* Properties of the reference provider                                    *)
(***************************************************************************)
\* the item holds a text JSON.parse accepts, of reference data
HoldsCopy(item) == item.present /\ item.kind = "json" /\ item.value.kind = "data"

NoReloadYet == \A c \in Callers \ {Boot} : tasks[c].pc = "idle"

\* C29: once boot has started, loading becomes false in the end, whether a
\* copy is found in localStorage, the fetch succeeds, or the fetch or the
\* parsing of its answer fails; a parsable copy in localStorage becomes data
\* with no fetch and no write of the item; when the fetch fails and there
\* is no copy, data stays null and boot does not throw
C29_BootSettles ==
  /\ (tasks[Boot].pc # "idle") ~> (tasks[Boot].pc = "done" /\ ~loading)
  /\ [][(tasks[Boot].pc = "idle" /\ tasks'[Boot].pc # "idle" /\ HoldsCopy(refItem)) =>
          /\ data' = refItem.value
          /\ tasks'[Boot].pc = "done"
          /\ ~loading'
          /\ fetches' = fetches /\ writes' = writes /\ refItem' = refItem]_vars
  /\ [][(tasks[Boot].pc = "failed" /\ tasks'[Boot].pc = "done") =>
          data' = data /\ ~loading' /\ thrown' = thrown]_vars
  /\ []((NoReloadYet /\ writes = 0 /\ ~HoldsCopy(refItem)) => data = NoData)
  /\ [](Boot \notin thrown)

\* boot has ended after a failed fetch, with no copy in the item
C29_Witness ==
  /\ op = "ref"
  /\ tasks[Boot].pc = "done"
  /\ NoReloadYet
  /\ fetches = 1 /\ writes = 0
  /\ ~HoldsCopy(refItem)
  /\ data = NoData /\ ~loading /\ thrown = {}

\* C30: whenever a fetch started by boot or by reload is in flight, loading
\* is true, also when reload is called before the fetch of boot or of an
\* earlier reload has completed, in every order of the completions
C30_LoadingWhileInFlight == (\E c \in Callers : InFlight(c)) => loading

=============================================================================
